---- MODULE Spec2Model ----
(***************************************************************************)
(* A model of expo-healthkit-module: the TypeScript facade (index.ts), the *)
(* web module, and the iOS (Swift) and Android (Kotlin) native modules.    *)
(* Strings are TLA+ strings; Len, SubSeq and \o act on their characters.   *)
(***************************************************************************)
EXTENDS Integers, Sequences, FiniteSets, TLC

VARIABLES
  platform,                       \* Platform.OS as seen by the facade
  hcInstalled,                    \* Android: the Health Connect package is installed
  ios16,                          \* iOS: the device runs iOS 16 or later
  syncIntervalHours,              \* iOS module field
  observerQueries,                \* iOS module field: installed HKObserverQuery list
  backgroundSyncEnabled,          \* iOS module field
  lastSyncTimestamp,              \* iOS module field
  backgroundTaskHandlerRegistered,\* iOS module field
  launchHandlers,                 \* BGTaskScheduler: register() calls for the task identifier
  pendingRequest,                 \* BGTaskScheduler: the submitted refresh request
  lastEvent,                      \* the last event sent to JavaScript
  lastCall,                       \* the last public call: inputs, native calls, outcome
  prevCall,                       \* the call before it: operation and native outcome
  observer,                       \* iOS: the HKObserverQuery update handler in progress
  refresh,                        \* iOS: the background refresh task in progress
  queries,                        \* iOS: the native getHealthData calls, step by step
  firstSupported                  \* the first getSupportedIdentifiers answer; was it asked again

vars == << platform, hcInstalled, ios16, syncIntervalHours, observerQueries,
           backgroundSyncEnabled, lastSyncTimestamp, backgroundTaskHandlerRegistered,
           launchHandlers, pendingRequest, lastEvent,
           lastCall, prevCall, observer, refresh, queries, firstSupported >>

-----------------------------------------------------------------------------
(* Values of the host languages *)

\* null / NSNull(), where an object is expected
Null == [null |-> TRUE]

\* null / nil / NSNull(), where a string is expected
NullString == "<null>"

\* The JavaScript value undefined, where a string is expected.
Undefined == "<undefined>"

\* error.localizedDescription / e.message of a failure reported by the OS
LocalizedDescription == "<localizedDescription>"

Digits == {"0", "1", "2", "3", "4", "5", "6", "7", "8", "9"}

CharAt(s, i) == SubSeq(s, i, i)

AllDigits(s, positions) == \A i \in positions : i <= Len(s) /\ CharAt(s, i) \in Digits

StartsWith(s, prefix) ==
  Len(s) >= Len(prefix) /\ SubSeq(s, 1, Len(prefix)) = prefix

\* Array.prototype.join / joinToString
RECURSIVE Join(_, _)
Join(seq, sep) ==
  IF Len(seq) = 0 THEN ""
  ELSE IF Len(seq) = 1 THEN seq[1]
  ELSE seq[1] \o sep \o Join(Tail(seq), sep)

Range(seq) == { seq[i] : i \in DOMAIN seq }

Max(a, b) == IF a >= b THEN a ELSE b

-----------------------------------------------------------------------------
(* index.ts: the identifier table and the date pattern *)

\* the table with a VO2 max target spelled as on iOS
IDENTIFIER_MAPPING_Vo2MaxSpelling ==
  [ stepCount              |-> [ios |-> "HKQuantityTypeIdentifierStepCount",              android |-> "Steps"],
    heartRate              |-> [ios |-> "HKQuantityTypeIdentifierHeartRate",              android |-> "HeartRate"],
    activeEnergyBurned     |-> [ios |-> "HKQuantityTypeIdentifierActiveEnergyBurned",     android |-> "ActiveCaloriesBurned"],
    distanceWalkingRunning |-> [ios |-> "HKQuantityTypeIdentifierDistanceWalkingRunning", android |-> "Distance"],
    flightsClimbed         |-> [ios |-> "HKQuantityTypeIdentifierFlightsClimbed",         android |-> "FloorsClimbed"],
    restingHeartRate       |-> [ios |-> "HKQuantityTypeIdentifierRestingHeartRate",       android |-> "RestingHeartRate"],
    respiratoryRate        |-> [ios |-> "HKQuantityTypeIdentifierRespiratoryRate",        android |-> "RespiratoryRate"],
    vo2Max                 |-> [ios |-> "HKQuantityTypeIdentifierVO2Max",                 android |-> "VO2Max"],
    sleepAnalysis          |-> [ios |-> "HKCategoryTypeIdentifierSleepAnalysis",          android |-> "SleepSession"],
    workout                |-> [ios |-> "HKWorkoutTypeIdentifier",                        android |-> "ExerciseSession"] ]

IDENTIFIER_MAPPING ==
  [ stepCount              |-> [ios |-> "HKQuantityTypeIdentifierStepCount",              android |-> "Steps"],
    heartRate              |-> [ios |-> "HKQuantityTypeIdentifierHeartRate",              android |-> "HeartRate"],
    activeEnergyBurned     |-> [ios |-> "HKQuantityTypeIdentifierActiveEnergyBurned",     android |-> "ActiveCaloriesBurned"],
    distanceWalkingRunning |-> [ios |-> "HKQuantityTypeIdentifierDistanceWalkingRunning", android |-> "Distance"],
    flightsClimbed         |-> [ios |-> "HKQuantityTypeIdentifierFlightsClimbed",         android |-> "FloorsClimbed"],
    restingHeartRate       |-> [ios |-> "HKQuantityTypeIdentifierRestingHeartRate",       android |-> "RestingHeartRate"],
    respiratoryRate        |-> [ios |-> "HKQuantityTypeIdentifierRespiratoryRate",        android |-> "RespiratoryRate"],
    vo2Max                 |-> [ios |-> "HKQuantityTypeIdentifierVO2Max",                 android |-> "Vo2Max"],
    sleepAnalysis          |-> [ios |-> "HKCategoryTypeIdentifierSleepAnalysis",          android |-> "SleepSession"],
    workout                |-> [ios |-> "HKWorkoutTypeIdentifier",                        android |-> "ExerciseSession"] ]

\* The README's "Cross-Platform Identifiers" table, kept apart from the code's table.
DocumentedIdentifiers ==
  [ stepCount              |-> [ios |-> "HKQuantityTypeIdentifierStepCount",              android |-> "Steps"],
    heartRate              |-> [ios |-> "HKQuantityTypeIdentifierHeartRate",              android |-> "HeartRate"],
    activeEnergyBurned     |-> [ios |-> "HKQuantityTypeIdentifierActiveEnergyBurned",     android |-> "ActiveCaloriesBurned"],
    distanceWalkingRunning |-> [ios |-> "HKQuantityTypeIdentifierDistanceWalkingRunning", android |-> "Distance"],
    flightsClimbed         |-> [ios |-> "HKQuantityTypeIdentifierFlightsClimbed",         android |-> "FloorsClimbed"],
    restingHeartRate       |-> [ios |-> "HKQuantityTypeIdentifierRestingHeartRate",       android |-> "RestingHeartRate"],
    respiratoryRate        |-> [ios |-> "HKQuantityTypeIdentifierRespiratoryRate",        android |-> "RespiratoryRate"],
    vo2Max                 |-> [ios |-> "HKQuantityTypeIdentifierVO2Max",                 android |-> "Vo2Max"],
    sleepAnalysis          |-> [ios |-> "HKCategoryTypeIdentifierSleepAnalysis",          android |-> "SleepSession"],
    workout                |-> [ios |-> "HKWorkoutTypeIdentifier",                        android |-> "ExerciseSession"] ]

UnifiedIdentifiers == DOMAIN IDENTIFIER_MAPPING

\* IDENTIFIER_MAPPING is an object literal, so a property read also finds the
\* members it inherits from Object.prototype.
ObjectPrototypeKeys ==
  { "constructor", "toString", "toLocaleString", "valueOf", "hasOwnProperty",
    "isPrototypeOf", "propertyIsEnumerable", "__proto__" }

\* IDENTIFIER_MAPPING[key]: an entry of the table, an inherited member (an
\* object without ios/android properties), or undefined.
MappingLookup(key) ==
  IF key \in DOMAIN IDENTIFIER_MAPPING
    THEN [truthy |-> TRUE, ios |-> IDENTIFIER_MAPPING[key].ios,
          android |-> IDENTIFIER_MAPPING[key].android]
  ELSE IF key \in ObjectPrototypeKeys
    THEN [truthy |-> TRUE, ios |-> Undefined, android |-> Undefined]
  ELSE [truthy |-> FALSE, ios |-> Undefined, android |-> Undefined]

\* a || b on values that are strings or undefined
OrElse(a, b) == IF a = Undefined \/ a = "" THEN b ELSE a

\* the two platform columns exchanged
getPlatformIdentifier_Swapped(os, crossPlatformId) ==
  LET mapping == MappingLookup(crossPlatformId) IN
  IF ~mapping.truthy THEN crossPlatformId
  ELSE IF os = "ios" THEN mapping.android ELSE mapping.ios

getPlatformIdentifier(os, crossPlatformId) ==
  LET mapping == MappingLookup(crossPlatformId) IN
  IF ~mapping.truthy THEN crossPlatformId
  ELSE IF os = "ios" THEN mapping.ios ELSE mapping.android

\* getHealthData, iOS branch: the identifier handed to the native module
ResolveIosIdentifier(identifier) ==
  IF StartsWith(identifier, "HK") THEN identifier
  ELSE OrElse(MappingLookup(identifier).ios, identifier)

\* getHealthData, Android branch: the identifier handed to the native module
ResolveAndroidIdentifier(identifier) ==
  IF \E k \in DOMAIN IDENTIFIER_MAPPING : IDENTIFIER_MAPPING[k].android = identifier
    THEN identifier
  ELSE OrElse(MappingLookup(identifier).android, identifier)

\* /^\d{4}-\d{2}-\d{2}T\d{2}:\d{2}:\d{2}(\.\d{3})?Z?$/ .test(s)
DateTimePrefixMatches(s) ==
  /\ Len(s) >= 19
  /\ AllDigits(s, {1, 2, 3, 4, 6, 7, 9, 10, 12, 13, 15, 16, 18, 19})
  /\ CharAt(s, 5) = "-" /\ CharAt(s, 8) = "-"
  /\ CharAt(s, 11) = "T"
  /\ CharAt(s, 14) = ":" /\ CharAt(s, 17) = ":"

dateRegexTest(s) ==
  /\ DateTimePrefixMatches(s)
  /\ LET rest == SubSeq(s, 20, Len(s))
         afterFraction ==
           IF Len(rest) >= 4 /\ CharAt(rest, 1) = "." /\ AllDigits(rest, {2, 3, 4})
             THEN SubSeq(rest, 5, Len(rest))
             ELSE rest
     IN  afterFraction \in {"", "Z"}

\* a test for undefined only, which lets the empty string through
Missing_OnlyAbsent(options, field) == field \notin DOMAIN options

\* !options.<field>: the field is absent or the empty string
Missing(options, field) == field \notin DOMAIN options \/ options[field] = ""

\* only the start date is tested
DatesRejected_StartOnly(options) == ~dateRegexTest(options.startDate)

\* !dateRegex.test(options.startDate) || !dateRegex.test(options.endDate)
DatesRejected(options) ==
  ~dateRegexTest(options.startDate) \/ ~dateRegexTest(options.endDate)

-----------------------------------------------------------------------------
(* Native date parsing *)

DigitValue(c) ==
  CASE c = "0" -> 0 [] c = "1" -> 1 [] c = "2" -> 2 [] c = "3" -> 3 [] c = "4" -> 4
    [] c = "5" -> 5 [] c = "6" -> 6 [] c = "7" -> 7 [] c = "8" -> 8 [] c = "9" -> 9

\* the number written by the digits s[from..to]
RECURSIVE Number(_, _, _)
Number(s, from, to) ==
  IF to < from THEN 0
  ELSE 10 * Number(s, from, to - 1) + DigitValue(CharAt(s, to))

IsLeapYear(y) == (y % 4 = 0 /\ y % 100 # 0) \/ y % 400 = 0

DaysInMonth(y, m) ==
  IF m = 2 THEN (IF IsLeapYear(y) THEN 29 ELSE 28)
  ELSE IF m \in {4, 6, 9, 11} THEN 30 ELSE 31

\* the calendar fields of "YYYY-MM-DDTHH:mm:ss..." name a real date and time
FieldsInRange(s) ==
  LET y == Number(s, 1, 4)   mo == Number(s, 6, 7)    d == Number(s, 9, 10)
      h == Number(s, 12, 13) mi == Number(s, 15, 16)  sec == Number(s, 18, 19)
  IN  /\ mo \in 1..12 /\ d \in 1..DaysInMonth(y, mo)
      /\ h \in 0..23 /\ mi \in 0..59 /\ sec \in 0..59

\* "+hh:mm" / "-hh:mm"
IsOffset(z) ==
  /\ Len(z) = 6 /\ CharAt(z, 1) \in {"+", "-"}
  /\ AllDigits(z, {2, 3, 5, 6}) /\ CharAt(z, 4) = ":"

\* iOS: ISO8601DateFormatter() with its default options (.withInternetDateTime):
\* date, time and a time zone, no fractional seconds.  TRUE iff date(from:) is non-nil.
isoFormatterParses(s) ==
  /\ DateTimePrefixMatches(s)
  /\ LET zone == SubSeq(s, 20, Len(s)) IN zone = "Z" \/ IsOffset(zone)
  /\ FieldsInRange(s)

\* Android: java.time.Instant.parse (DateTimeFormatter.ISO_INSTANT): an optional
\* fraction of up to nine digits and a mandatory "Z".  TRUE iff no exception.
InstantParses(s) ==
  /\ DateTimePrefixMatches(s)
  /\ Len(s) >= 20 /\ CharAt(s, Len(s)) = "Z"
  /\ LET fraction == SubSeq(s, 20, Len(s) - 1) IN
       \/ fraction = ""
       \/ /\ Len(fraction) \in 2..10 /\ CharAt(fraction, 1) = "."
          /\ AllDigits(fraction, 2..Len(fraction))
  /\ FieldsInRange(s)

-----------------------------------------------------------------------------
(* ExpoHealthkitModule.swift: tables and normalizers *)

quantityTypeIdentifiers ==
  << "HKQuantityTypeIdentifierActiveEnergyBurned",
     "HKQuantityTypeIdentifierAppleExerciseTime",
     "HKQuantityTypeIdentifierAppleStandTime",
     "HKQuantityTypeIdentifierBasalEnergyBurned",
     "HKQuantityTypeIdentifierDistanceCycling",
     "HKQuantityTypeIdentifierDistanceWalkingRunning",
     "HKQuantityTypeIdentifierFlightsClimbed",
     "HKQuantityTypeIdentifierHeartRate",
     "HKQuantityTypeIdentifierHeartRateRecoveryOneMinute",
     "HKQuantityTypeIdentifierHeartRateVariabilitySDNN",
     "HKQuantityTypeIdentifierRespiratoryRate",
     "HKQuantityTypeIdentifierRestingHeartRate",
     "HKQuantityTypeIdentifierStepCount",
     "HKQuantityTypeIdentifierVO2Max" >>

categoryTypeIdentifiers == << "HKCategoryTypeIdentifierSleepAnalysis" >>

workoutTypeIdentifiers == << "HKWorkoutTypeIdentifier" >>

\* HKObjectType.workoutType().identifier
WorkoutTypeIdentifier == "HKWorkoutTypeIdentifier"

\* HKObjectType.quantityType(forIdentifier:) is non-nil: every listed identifier
\* is known to HealthKit, HeartRateRecoveryOneMinute only from iOS 16 on.
QuantityTypeResolves(identifier, onIos16) ==
  identifier # "HKQuantityTypeIdentifierHeartRateRecoveryOneMinute" \/ onIos16

\* HKObjectType.categoryType(forIdentifier:) is non-nil
CategoryTypeResolves(identifier) == identifier = "HKCategoryTypeIdentifierSleepAnalysis"

\* the unit table without the identifier added with iOS 16
getUnit_WithoutRecovery(identifier) ==
  CASE identifier \in { "HKQuantityTypeIdentifierActiveEnergyBurned",
                        "HKQuantityTypeIdentifierBasalEnergyBurned" } -> "kcal"
    [] identifier \in { "HKQuantityTypeIdentifierAppleExerciseTime",
                        "HKQuantityTypeIdentifierAppleStandTime" } -> "min"
    [] identifier \in { "HKQuantityTypeIdentifierDistanceCycling",
                        "HKQuantityTypeIdentifierDistanceWalkingRunning" } -> "km"
    [] identifier \in { "HKQuantityTypeIdentifierFlightsClimbed",
                        "HKQuantityTypeIdentifierStepCount" } -> "count"
    [] identifier \in { "HKQuantityTypeIdentifierHeartRate",
                        "HKQuantityTypeIdentifierRestingHeartRate",
                        "HKQuantityTypeIdentifierRespiratoryRate" } -> "count/min"
    [] identifier = "HKQuantityTypeIdentifierHeartRateVariabilitySDNN" -> "ms"
    [] identifier = "HKQuantityTypeIdentifierVO2Max" -> "ml/(kg*min)"
    [] OTHER -> NullString

\* getUnit(forIdentifier:): the unit, written as in the source's comments; NullString for nil
getUnit(identifier) ==
  CASE identifier \in { "HKQuantityTypeIdentifierActiveEnergyBurned",
                        "HKQuantityTypeIdentifierBasalEnergyBurned" } -> "kcal"
    [] identifier \in { "HKQuantityTypeIdentifierAppleExerciseTime",
                        "HKQuantityTypeIdentifierAppleStandTime" } -> "min"
    [] identifier \in { "HKQuantityTypeIdentifierDistanceCycling",
                        "HKQuantityTypeIdentifierDistanceWalkingRunning" } -> "km"
    [] identifier \in { "HKQuantityTypeIdentifierFlightsClimbed",
                        "HKQuantityTypeIdentifierStepCount" } -> "count"
    [] identifier \in { "HKQuantityTypeIdentifierHeartRate",
                        "HKQuantityTypeIdentifierHeartRateRecoveryOneMinute",
                        "HKQuantityTypeIdentifierRestingHeartRate",
                        "HKQuantityTypeIdentifierRespiratoryRate" } -> "count/min"
    [] identifier = "HKQuantityTypeIdentifierHeartRateVariabilitySDNN" -> "ms"
    [] identifier = "HKQuantityTypeIdentifierVO2Max" -> "ml/(kg*min)"
    [] OTHER -> NullString

\* the sleep stages known on the iOS 16 branch only
mapSleepAnalysisValue_StagesFrom16(value, onIos16) ==
  CASE value = 0 -> "HKCategoryValueSleepAnalysisInBed"
    [] value = 2 -> "HKCategoryValueSleepAnalysisAwake"
    [] OTHER ->
         IF onIos16
           THEN CASE value = 3 -> "HKCategoryValueSleepAnalysisAsleepCore"
                  [] value = 4 -> "HKCategoryValueSleepAnalysisAsleepDeep"
                  [] value = 5 -> "HKCategoryValueSleepAnalysisAsleepREM"
                  [] OTHER -> "UNKNOWN_SLEEP_VALUE_" \o ToString(value)
           ELSE "UNKNOWN_SLEEP_VALUE_" \o ToString(value)

\* mapSleepAnalysisValue(value:), with its `#available(iOS 16.0, *)` branches
mapSleepAnalysisValue(value, onIos16) ==
  CASE value = 0 -> "HKCategoryValueSleepAnalysisInBed"
    [] value = 2 -> "HKCategoryValueSleepAnalysisAwake"
    [] OTHER ->
         IF onIos16
           THEN CASE value = 3 -> "HKCategoryValueSleepAnalysisAsleepCore"
                  [] value = 4 -> "HKCategoryValueSleepAnalysisAsleepDeep"
                  [] value = 5 -> "HKCategoryValueSleepAnalysisAsleepREM"
                  [] OTHER -> "UNKNOWN_SLEEP_VALUE_" \o ToString(value)
           ELSE CASE value = 3 -> "HKCategoryValueSleepAnalysisAsleepCore"
                  [] value = 4 -> "HKCategoryValueSleepAnalysisAsleepDeep"
                  [] value = 5 -> "HKCategoryValueSleepAnalysisAsleepREM"
                  [] OTHER -> "UNKNOWN_SLEEP_VALUE_" \o ToString(value)

\* The store's answer to one read: an error, no sample array (or one of another
\* class), or a list of samples, each written as its raw number (a quantity's
\* magnitude in the query's unit, a category code, a workout's duration).
\* The fields copied verbatim from a sample (source, device, dates, metadata)
\* are left out of the normalized samples.
FormatQuantitySample(identifier, unit, raw) ==
  [type |-> identifier, unit |-> unit, value |-> raw]

FormatCategorySample(identifier, raw, onIos16) ==
  [type |-> identifier,
   value |-> IF identifier = "HKCategoryTypeIdentifierSleepAnalysis"
               THEN mapSleepAnalysisValue(raw, onIos16) ELSE ToString(raw)]

FormatWorkoutSample(raw) ==
  [type |-> WorkoutTypeIdentifier, duration |-> raw, durationUnit |-> "s"]

-----------------------------------------------------------------------------
(* ExpoHealthkitModule.kt: tables and normalizers *)

\* recordTypeMap.keys, in declaration order
recordTypeMapKeys ==
  << "ActiveCaloriesBurned", "BasalMetabolicRate", "BodyFat", "CyclingPedalingCadence",
     "Distance", "ElevationGained", "ExerciseSession", "FloorsClimbed", "HeartRate",
     "LeanBodyMass", "OxygenSaturation", "RespiratoryRate", "RestingHeartRate",
     "SleepSession", "Speed", "StepsCadence", "Steps", "TotalCaloriesBurned", "Vo2Max" >>

getUnitForRecord(identifier) ==
  CASE identifier = "ActiveCaloriesBurned" -> "kcal"
    [] identifier = "BasalMetabolicRate" -> "kcal/day"
    [] identifier = "BodyFat" -> "%"
    [] identifier = "CyclingPedalingCadence" -> "rpm"
    [] identifier = "Distance" -> "m"
    [] identifier = "ElevationGained" -> "m"
    [] identifier = "FloorsClimbed" -> "count"
    [] identifier = "HeartRate" -> "bpm"
    [] identifier = "LeanBodyMass" -> "kg"
    [] identifier = "OxygenSaturation" -> "%"
    [] identifier = "RespiratoryRate" -> "breaths/min"
    [] identifier = "RestingHeartRate" -> "bpm"
    [] identifier = "Speed" -> "m/s"
    [] identifier = "StepsCadence" -> "steps/min"
    [] identifier = "Steps" -> "count"
    [] identifier = "TotalCaloriesBurned" -> "kcal"
    [] identifier = "Vo2Max" -> "mL/(kg·min)"
    [] identifier = "ExerciseSession" -> "session"
    [] identifier = "SleepSession" -> "session"
    [] OTHER -> "unknown"

\* formatRecordToStandardFormat, for a record read for `identifier`
formatRecordToStandardFormat(identifier, raw) ==
  [type |-> identifier \o "Record", unit |-> getUnitForRecord(identifier), value |-> raw]

-----------------------------------------------------------------------------
(* Bounds and inputs *)

\* the longest sample list the store is made to return
MaxSamples == 1

\* the most observer queries the model lets accumulate
MaxObservers == 20

\* the number of native getHealthData calls followed step by step
MaxCalls == 2

RawValues == {4}

RECURSIVE SeqsUpTo(_, _)
SeqsUpTo(S, n) ==
  IF n = 0 THEN {<< >>}
  ELSE LET shorter == SeqsUpTo(S, n - 1) IN
       shorter \cup { Append(q, x) : q \in { r \in shorter : Len(r) = n - 1 }, x \in S }

\* what HealthKit / Health Connect may answer to one read
ReadOutcomes ==
  { [kind |-> "error", samples |-> << >>], [kind |-> "none", samples |-> << >>] }
    \cup { [kind |-> "samples", samples |-> l] : l \in SeqsUpTo(RawValues, MaxSamples) }

NoRead == [kind |-> "none", samples |-> << >>]

\* what a call into the native module may do, seen from JavaScript: its handler
\* runs and the promise resolves with the handler's answer, the promise rejects,
\* or the call throws before a promise exists (argument conversion)
NativeBehaviours == {"resolve", "reject", "throw"}

\* requestAuthorization's completion: (success, nil), (false, nil), (_, error)
AuthOutcomes == {"success", "failure", "error"}

Absent == "<absent>"

IdentifierInputs ==
  { Absent, "", "stepCount", "sleepAnalysis", "workout", "Steps", "BodyFat",
    "HKQuantityTypeIdentifierStepCount",
    "HKQuantityTypeIdentifierHeartRateRecoveryOneMinute",
    "HKBogus", "bogus-id", "constructor" }

DateInputs ==
  { Absent, "", "not-a-date", "2024-01-01",
    "2024-01-01T00:00:00Z",          \* accepted everywhere
    "2024-01-02T00:00:00",           \* no zone: facade only
    "2024-01-02T00:00:00.000Z",      \* Date.prototype.toISOString: facade and Android
    "2024-01-02T00:00:00.00Z",       \* two fraction digits: Android parser only
    "2024-13-45T00:00:00Z",          \* matches the pattern, is no date
    "2024-01-02T00:00:00Zjunk" }

ValidDate == "2024-01-01T00:00:00Z"

\* the strings passed to getPlatformIdentifier
PlatformIdentifierInputs ==
  (IdentifierInputs \ {Absent}) \cup UnifiedIdentifiers \cup ObjectPrototypeKeys

\* an options object holding the given fields; Absent leaves the field out
Options(identifier, startDate, endDate, extra) ==
  LET given == [identifier |-> identifier, startDate |-> startDate, endDate |-> endDate]
      present == { f \in DOMAIN given : given[f] # Absent }
  IN  [f \in present \cup DOMAIN extra |-> IF f \in present THEN given[f] ELSE extra[f]]

NoExtra == [f \in {} |-> Absent]

HealthDataInputs ==
  { Options(i, ValidDate, "2024-01-02T00:00:00.000Z", NoExtra) : i \in IdentifierInputs }
    \cup { Options(i, ValidDate, ValidDate, NoExtra) : i \in IdentifierInputs }
    \cup { Options(i, d, ValidDate, NoExtra) : i \in {"stepCount", "bogus-id"}, d \in DateInputs }
    \cup { Options(i, ValidDate, d, NoExtra) : i \in {"stepCount", "bogus-id"}, d \in DateInputs }
    \cup { Options(Absent, Absent, Absent, NoExtra),
           Options("stepCount", "", "not-a-date", NoExtra),
           Options("", "not-a-date", ValidDate, NoExtra),
           Options("stepCount", ValidDate, ValidDate, [aggregation |-> "daily"]),
           Options("stepCount", ValidDate, ValidDate, [limit |-> 10, ascending |-> FALSE]) }

\* the raw numbers of the samples handed to the normalizers: the
\* HKCategoryValueSleepAnalysis codes 0..5 and numbers around them
SampleValueInputs == -1 .. 7

\* the store's answers to a read made by a direct call of the native module
NativeReadOutcomes ==
  { [kind |-> "error", samples |-> << >>], [kind |-> "none", samples |-> << >>] }
    \cup { [kind |-> "samples", samples |-> << v >>] : v \in SampleValueInputs }

\* the options of the direct calls: every identifier of the three Swift lists
\* and one outside them
NativeQueryInputs ==
  { Options(id, ValidDate, ValidDate, NoExtra) :
      id \in Range(quantityTypeIdentifiers) \cup Range(categoryTypeIdentifiers)
               \cup Range(workoutTypeIdentifiers) \cup {"HKBogus"} }

\* A Double number of hours is written as a whole number of hundredths of an
\* hour: 2400 is 24.0, 10 is 0.1, -100 is -1.0.
Hundredths == 100

\* syncInterval: -1, 0, 0.1 and 0.5 hours
SyncIntervalInputs == {-100, 0, 10, 50}

DataTypeInputs == { << >>, << "stepCount" >> }

\* the options objects passed to enableBackgroundSync
BackgroundSyncInputs ==
  { NoExtra, [dataTypes |-> << "stepCount" >>] }
    \cup { [syncInterval |-> h, dataTypes |-> t] : h \in SyncIntervalInputs, t \in DataTypeInputs }

-----------------------------------------------------------------------------
(* Results *)

createHealthDataError(code, message) == [code |-> code, message |-> message]

\* { success: false, data: [], error: { code, message } }
Failure(code, message) ==
  [success |-> FALSE, data |-> << >>, error |-> createHealthDataError(code, message)]

\* the synthesized result carrying the catch block's code
createUnsupportedPlatformError_AsException ==
  Failure("exception", "Health data is only available on iOS and Android.")

createUnsupportedPlatformError ==
  Failure("permission_denied", "Health data is only available on iOS and Android.")

\* createExceptionError(error), for an error that carries a message
createExceptionError == Failure("exception", LocalizedDescription)

Field(args, name) == IF name \in DOMAIN args THEN args[name] ELSE ""

-----------------------------------------------------------------------------
(* ExpoHealthkitModule.swift: AsyncFunction("getHealthData") *)

\* the error branch leaves `result` at its initial value
QueryCompletion_ErrorKeepsInitial(kind, identifier, outcome, onIos16) ==
  IF outcome.kind = "error" THEN [success |-> FALSE, data |-> << >>, error |-> Null]
  ELSE IF outcome.kind = "samples"
    THEN [success |-> TRUE,
          data |-> [i \in DOMAIN outcome.samples |->
                      CASE kind = "quantity" ->
                             FormatQuantitySample(identifier, getUnit(identifier), outcome.samples[i])
                        [] kind = "category" ->
                             FormatCategorySample(identifier, outcome.samples[i], onIos16)
                        [] kind = "workout" -> FormatWorkoutSample(outcome.samples[i])],
          error |-> Null]
  ELSE [success |-> TRUE, data |-> << >>, error |-> Null]

\* the completion handler of the HKSampleQuery of the given kind
QueryCompletion(kind, identifier, outcome, onIos16) ==
  IF outcome.kind = "error" THEN Failure("query_error", LocalizedDescription)
  ELSE IF outcome.kind = "samples"
    THEN [success |-> TRUE,
          data |-> [i \in DOMAIN outcome.samples |->
                      CASE kind = "quantity" ->
                             FormatQuantitySample(identifier, getUnit(identifier), outcome.samples[i])
                        [] kind = "category" ->
                             FormatCategorySample(identifier, outcome.samples[i], onIos16)
                        [] kind = "workout" -> FormatWorkoutSample(outcome.samples[i])],
          error |-> Null]
  ELSE [success |-> TRUE, data |-> << >>, error |-> Null]

\* the quantity branch chosen by the identifier's prefix instead of the list
IosBranch_ByPrefix(identifier, onIos16) ==
  IF StartsWith(identifier, "HK") /\ QuantityTypeResolves(identifier, onIos16)
    THEN "quantity"
  ELSE IF identifier \in Range(categoryTypeIdentifiers) /\ CategoryTypeResolves(identifier)
    THEN "category"
  ELSE IF identifier = WorkoutTypeIdentifier THEN "workout"
  ELSE "unsupported"

\* which query branch of the if-chain is taken
IosBranch(identifier, onIos16) ==
  IF identifier \in Range(quantityTypeIdentifiers) /\ QuantityTypeResolves(identifier, onIos16)
    THEN "quantity"
  ELSE IF identifier \in Range(categoryTypeIdentifiers) /\ CategoryTypeResolves(identifier)
    THEN "category"
  ELSE IF identifier = WorkoutTypeIdentifier THEN "workout"
  ELSE "unsupported"

\* the promise's value and the number of queries handed to healthStore.execute
IosGetHealthData(args, outcome, onIos16) ==
  LET identifier == Field(args, "identifier")
      startDateString == Field(args, "startDate")
      endDateString == Field(args, "endDate")
      branch == IosBranch(identifier, onIos16)
  IN
  IF identifier = "" \/ startDateString = "" \/ endDateString = ""
    THEN [result |-> Failure("missing_arguments",
                             "Missing required options: identifier, startDate, endDate."),
          reads |-> 0]
  ELSE IF ~(isoFormatterParses(startDateString) /\ isoFormatterParses(endDateString))
    THEN [result |-> Failure("invalid_date", "Invalid date format."), reads |-> 0]
  ELSE IF branch = "quantity" /\ getUnit(identifier) = NullString
    THEN [result |-> Failure("internal_error",
                             "Could not determine unit for identifier: " \o identifier),
          reads |-> 0]
  ELSE IF branch = "unsupported"
    THEN [result |-> Failure("unsupported_identifier", "Identifier not supported."),
          reads |-> 0]
  ELSE [result |-> QueryCompletion(branch, identifier, outcome, onIos16), reads |-> 1]

-----------------------------------------------------------------------------
(* ExpoHealthkitModule.kt: AsyncFunction("getHealthData") *)

\* the identifier looked up before Health Connect is asked for
AndroidGetHealthData_IdentifierFirst(args, outcome, healthConnect) ==
  IF ~({"identifier", "startDate", "endDate"} \subseteq DOMAIN args)
    THEN [result |-> Failure("missing_arguments",
                             "Missing required options: identifier, startDate, endDate."),
          reads |-> 0]
  ELSE IF args.identifier \notin Range(recordTypeMapKeys)
    THEN [result |-> Failure("unsupported_identifier",
                             "Identifier '" \o args.identifier \o "' not supported. Available: "
                               \o Join(recordTypeMapKeys, ", ")),
          reads |-> 0]
  ELSE IF ~healthConnect
    THEN [result |-> Failure("health_connect_unavailable",
                             "Health Connect is not available on this device."),
          reads |-> 0]
  ELSE IF ~(InstantParses(args.startDate) /\ InstantParses(args.endDate))
    THEN [result |-> Failure("query_error", "Failed to fetch data: " \o LocalizedDescription),
          reads |-> 0]
  ELSE IF outcome.kind = "error"
    THEN [result |-> Failure("query_error", "Failed to fetch data: " \o LocalizedDescription),
          reads |-> 1]
  ELSE [result |-> [success |-> TRUE,
                    data |-> [i \in DOMAIN outcome.samples |->
                                formatRecordToStandardFormat(args.identifier, outcome.samples[i])],
                    error |-> Null],
        reads |-> 1]

AndroidGetHealthData(args, outcome, healthConnect) ==
  IF ~({"identifier", "startDate", "endDate"} \subseteq DOMAIN args)
    THEN [result |-> Failure("missing_arguments",
                             "Missing required options: identifier, startDate, endDate."),
          reads |-> 0]
  ELSE IF ~healthConnect
    THEN [result |-> Failure("health_connect_unavailable",
                             "Health Connect is not available on this device."),
          reads |-> 0]
  ELSE IF args.identifier \notin Range(recordTypeMapKeys)
    THEN [result |-> Failure("unsupported_identifier",
                             "Identifier '" \o args.identifier \o "' not supported. Available: "
                               \o Join(recordTypeMapKeys, ", ")),
          reads |-> 0]
  ELSE IF ~(InstantParses(args.startDate) /\ InstantParses(args.endDate))
    THEN [result |-> Failure("query_error", "Failed to fetch data: " \o LocalizedDescription),
          reads |-> 0]
  ELSE IF outcome.kind = "error"
    THEN [result |-> Failure("query_error", "Failed to fetch data: " \o LocalizedDescription),
          reads |-> 1]
  ELSE [result |-> [success |-> TRUE,
                    data |-> [i \in DOMAIN outcome.samples |->
                                formatRecordToStandardFormat(args.identifier, outcome.samples[i])],
                    error |-> Null],
        reads |-> 1]

-----------------------------------------------------------------------------
(* ExpoHealthkitModule.web.ts *)

WebGetHealthData ==
  Failure("unsupported_platform", "Health data is not available on web platform.")

WebAuthorizeHealthKit ==
  [success |-> FALSE, granted |-> {}, denied |-> {},
   error |-> "Health data is not available on web platform."]

-----------------------------------------------------------------------------
(* Native authorizeHealthKit *)

\* the identifiers of the HKObjectType set built before the request
IosRequestSet(onIos16) ==
  { id \in Range(quantityTypeIdentifiers) : QuantityTypeResolves(id, onIos16) }
    \cup { id \in Range(categoryTypeIdentifiers) : CategoryTypeResolves(id) }
    \cup { WorkoutTypeIdentifier : id \in Range(workoutTypeIdentifiers) }

\* Swift: granted and denied are arrays mapped from a Set (no fixed order),
\* written here as sets
IosAuthorizeHealthKit(authOutcome, onIos16) ==
  LET toRequest == IosRequestSet(onIos16)
      errorMsg == CASE authOutcome = "error" -> LocalizedDescription
                    [] authOutcome = "success" -> NullString
                    [] authOutcome = "failure" -> "Authorization failed for unknown reasons."
      granted == IF authOutcome = "success" THEN toRequest ELSE {}
      denied == IF authOutcome = "failure" THEN toRequest ELSE {}
  IN  [success |-> errorMsg = NullString, granted |-> granted, denied |-> denied,
       error |-> errorMsg]

AndroidAuthorizeHealthKit(healthConnect) ==
  IF ~healthConnect
    THEN [success |-> FALSE, granted |-> << >>, denied |-> << >>,
          error |-> "Health Connect is not available on this device. Please install Google Health Connect."]
    ELSE [success |-> TRUE, granted |-> recordTypeMapKeys, denied |-> << >>,
          error |-> NullString]

-----------------------------------------------------------------------------
(* The state machine *)

Platforms == {"ios", "android", "web"}

NoRequest == [submitted |-> FALSE, earliestBeginSeconds |-> 0]

NoEvent == [name |-> "none"]

\* setupHealthDataObserver's sampleTypes, by identifier
ObservedSampleTypes ==
  << "HKQuantityTypeIdentifierStepCount", "HKQuantityTypeIdentifierHeartRate",
     "HKQuantityTypeIdentifierActiveEnergyBurned",
     "HKQuantityTypeIdentifierDistanceWalkingRunning",
     "HKQuantityTypeIdentifierFlightsClimbed", "HKQuantityTypeIdentifierRestingHeartRate",
     "HKQuantityTypeIdentifierRespiratoryRate", "HKQuantityTypeIdentifierVO2Max",
     "HKCategoryTypeIdentifierSleepAnalysis", "HKWorkoutTypeIdentifier" >>

\* the record kept of one public call: its operation and input, what the call
\* into the native module did ("none": no native call) and the arguments it
\* was given, the number of native calls and of OS requests (reads, permission requests) it made, and whether
\* the promise resolved (with `result`) or rejected
Call(op, input, native, nativeArgs, osCalls, settled, result) ==
  [op |-> op, input |-> input, native |-> native, nativeArgs |-> nativeArgs,
   nativeCalls |-> IF native = "none" THEN 0 ELSE 1,
   osCalls |-> osCalls, settled |-> settled, result |-> result]

Record(call) ==
  /\ lastCall' = call
  /\ prevCall' = [op |-> lastCall.op, native |-> lastCall.native]

iosState == << syncIntervalHours, observerQueries, backgroundSyncEnabled, lastSyncTimestamp,
               backgroundTaskHandlerRegistered, launchHandlers, pendingRequest, lastEvent >>

env == << platform, hcInstalled, ios16 >>

\* what runs beside the public calls
procs == << observer, refresh, queries, firstSupported >>

\* the closure state of one native getHealthData call: `result` and `semaphore`
\* are its local variables, reads counts healthStore.execute, completions the
\* runs of the query's results handler, resolves the promise.resolve calls
IdleQuery ==
  [pc |-> "idle", args |-> NoExtra,
   result |-> [success |-> FALSE, data |-> << >>, error |-> Null],
   semaphore |-> 0, reads |-> 0, completions |-> 0, resolves |-> 0, resolved |-> Null,
   request |-> Null, outcome |-> Null]

CallIds == 1 .. MaxCalls

IdleObserver == [pc |-> "idle", dataType |-> NullString]

IdleRefresh == [pc |-> "idle"]

Init ==
  /\ platform \in Platforms
  /\ hcInstalled \in (IF platform = "android" THEN BOOLEAN ELSE {FALSE})
  /\ ios16 \in (IF platform = "ios" THEN BOOLEAN ELSE {FALSE})
  /\ syncIntervalHours = 24 * Hundredths
  /\ observerQueries = << >>
  /\ backgroundSyncEnabled = FALSE
  /\ lastSyncTimestamp = NullString
  /\ backgroundTaskHandlerRegistered = FALSE
  /\ launchHandlers = (IF platform = "ios" THEN 1 ELSE 0)
  /\ pendingRequest = NoRequest
  /\ lastEvent = NoEvent
  /\ lastCall = Call("none", NoExtra, "none", NoExtra, 0, "resolved", Null)
  /\ prevCall = [op |-> "none", native |-> "none"]
  /\ observer = IdleObserver
  /\ refresh = IdleRefresh
  /\ queries = [c \in CallIds |-> IdleQuery]
  /\ firstSupported = [list |-> << >>, repeated |-> FALSE]

\* index.ts: authorizeHealthKit
AuthorizeHealthKit(nb, authOutcome) ==
  /\ IF platform = "ios"
       THEN Record(IF nb = "resolve"
                     THEN Call("authorizeHealthKit", NoExtra, nb, NoExtra, 1, "resolved",
                               IosAuthorizeHealthKit(authOutcome, ios16))
                     ELSE Call("authorizeHealthKit", NoExtra, nb, NoExtra, 0, "rejected", Null))
     ELSE IF platform = "android"
       THEN Record(IF nb = "resolve"
                     THEN Call("authorizeHealthKit", NoExtra, nb, NoExtra, 0, "resolved",
                               AndroidAuthorizeHealthKit(hcInstalled))
                     ELSE Call("authorizeHealthKit", NoExtra, nb, NoExtra, 0, "rejected", Null))
     ELSE Record(Call("authorizeHealthKit", NoExtra, "none", NoExtra, 0, "resolved",
                      [success |-> FALSE, granted |-> << >>, denied |-> << >>,
                       error |-> "Health data is only available on iOS and Android."]))
  /\ UNCHANGED << env, iosState, procs >>

\* index.ts: the options object built for the iOS native call
IosHealthDataOptions(options) ==
  [f \in {"identifier", "startDate", "endDate"}
           \cup (DOMAIN options \cap {"aggregation", "limit", "ascending"}) |->
     IF f = "identifier" THEN ResolveIosIdentifier(options.identifier) ELSE options[f]]

\* index.ts: the options object built for the Android native call
AndroidHealthDataOptions(options) ==
  [f \in DOMAIN options \cup {"identifier", "aggregation"} |->
     IF f = "identifier" THEN ResolveAndroidIdentifier(options.identifier)
     ELSE IF f = "aggregation"
       THEN (IF "aggregation" \in DOMAIN options THEN options.aggregation ELSE "raw")
     ELSE options[f]]

\* index.ts: getHealthData
GetHealthDataCall(options, nb, outcome) ==
  IF Missing(options, "identifier") \/ Missing(options, "startDate") \/ Missing(options, "endDate")
    THEN Call("getHealthData", options, "none", NoExtra, 0, "resolved",
              Failure("missing_arguments",
                      "Missing required options: identifier, startDate, endDate."))
  ELSE IF DatesRejected(options)
    THEN Call("getHealthData", options, "none", NoExtra, 0, "resolved",
              Failure("invalid_date",
                      "Dates must be in ISO 8601 format (YYYY-MM-DDTHH:mm:ss.sssZ)"))
  ELSE IF platform = "ios"
    THEN \* const res = await NativeModule.getHealthData(...), inside try
         IF nb = "resolve"
           THEN LET native == IosGetHealthData(IosHealthDataOptions(options), outcome, ios16)
                IN  Call("getHealthData", options, nb, IosHealthDataOptions(options),
                         native.reads, "resolved", native.result)
           ELSE Call("getHealthData", options, nb, IosHealthDataOptions(options),
                     0, "resolved", createExceptionError)
  ELSE IF platform = "android"
    THEN \* return NativeModule.getHealthData(...), inside try, not awaited
         IF nb = "resolve"
           THEN LET native == AndroidGetHealthData(AndroidHealthDataOptions(options),
                                                   outcome, hcInstalled)
                IN  Call("getHealthData", options, nb, AndroidHealthDataOptions(options),
                         native.reads, "resolved", native.result)
         ELSE IF nb = "throw"
           THEN Call("getHealthData", options, nb, AndroidHealthDataOptions(options),
                     0, "resolved", createExceptionError)
         ELSE Call("getHealthData", options, nb, AndroidHealthDataOptions(options),
                   0, "rejected", Null)
  ELSE Call("getHealthData", options, "none", NoExtra, 0, "resolved", createUnsupportedPlatformError)

GetHealthData(options, nb, outcome) ==
  /\ Record(GetHealthDataCall(options, nb, outcome))
  /\ UNCHANGED << env, iosState, procs >>

\* ExpoHealthkitModule.web.ts: getHealthData called on the module object itself
WebModuleGetHealthData(options) ==
  /\ platform = "web"
  /\ Record(Call("module.getHealthData", options, "none", NoExtra, 0, "resolved", WebGetHealthData))
  /\ UNCHANGED << env, iosState, procs >>

\* index.ts: getPlatformIdentifier
GetPlatformIdentifier(crossPlatformId) ==
  /\ Record(Call("getPlatformIdentifier", crossPlatformId, "none", NoExtra, 0, "resolved",
                 getPlatformIdentifier(platform, crossPlatformId)))
  /\ UNCHANGED << env, iosState, procs >>

\* the answer taken from one shared array that the first caller shortened
getSupportedIdentifiers_SharedArray(os) ==
  LET list == IF os = "ios"
                THEN quantityTypeIdentifiers
                       \o << "HKCategoryTypeIdentifierSleepAnalysis", "HKWorkoutTypeIdentifier" >>
                ELSE << "stepCount", "heartRate", "activeEnergyBurned",
                        "distanceWalkingRunning", "flightsClimbed", "restingHeartRate",
                        "respiratoryRate", "vo2Max", "sleepAnalysis", "workout" >>
  IN  IF firstSupported.list = << >> THEN list ELSE SubSeq(list, 1, Len(list) - 1)

\* index.ts: getSupportedIdentifiers, a fresh array literal on every call
getSupportedIdentifiers(os) ==
  IF os = "ios"
    THEN << "HKQuantityTypeIdentifierActiveEnergyBurned",
            "HKQuantityTypeIdentifierAppleExerciseTime",
            "HKQuantityTypeIdentifierAppleStandTime",
            "HKQuantityTypeIdentifierBasalEnergyBurned",
            "HKQuantityTypeIdentifierDistanceCycling",
            "HKQuantityTypeIdentifierDistanceWalkingRunning",
            "HKQuantityTypeIdentifierFlightsClimbed",
            "HKQuantityTypeIdentifierHeartRate",
            "HKQuantityTypeIdentifierHeartRateRecoveryOneMinute",
            "HKQuantityTypeIdentifierHeartRateVariabilitySDNN",
            "HKQuantityTypeIdentifierRespiratoryRate",
            "HKQuantityTypeIdentifierRestingHeartRate",
            "HKQuantityTypeIdentifierStepCount",
            "HKQuantityTypeIdentifierVO2Max",
            "HKCategoryTypeIdentifierSleepAnalysis",
            "HKWorkoutTypeIdentifier" >>
    ELSE << "stepCount", "heartRate", "activeEnergyBurned", "distanceWalkingRunning",
            "flightsClimbed", "restingHeartRate", "respiratoryRate", "vo2Max",
            "sleepAnalysis", "workout" >>

\* a call of getSupportedIdentifiers; the first answer is kept for comparison
GetSupportedIdentifiers ==
  /\ Record(Call("getSupportedIdentifiers", NoExtra, "none", NoExtra, 0, "resolved",
                 getSupportedIdentifiers(platform)))
  /\ firstSupported' =
       IF firstSupported.list = << >>
         THEN [list |-> getSupportedIdentifiers(platform), repeated |-> FALSE]
         ELSE [firstSupported EXCEPT !.repeated = TRUE]
  /\ UNCHANGED << env, iosState, observer, refresh, queries >>

\* the iOS native module's getHealthData called on the module object (the
\* package's default export), with the store's answer to its read
NativeGetHealthData(args, outcome) ==
  /\ platform = "ios"
  /\ LET native == IosGetHealthData(args, outcome, ios16)
     IN  Record(Call("native.getHealthData", [options |-> args, samples |-> outcome.samples],
                     "resolve", args, native.reads, "resolved", native.result))
  /\ UNCHANGED << env, iosState, procs >>

-----------------------------------------------------------------------------
(* Background sync *)

\* scheduleBackgroundHealthSync: the scheduler's pending request afterwards.
\* BGTaskScheduler.submit may throw (caught and logged); a submitted request
\* replaces the pending one for the same identifier.
\* the request submitted with the interval itself as its delay
scheduleBackgroundHealthSync_NoFloor(enabled, intervalHours, pending, submitOk) ==
  IF ~enabled THEN pending
  ELSE IF submitOk
    THEN [submitted |-> TRUE,
          earliestBeginSeconds |-> (intervalHours * 60 * 60) \div Hundredths]
    ELSE pending

scheduleBackgroundHealthSync(enabled, intervalHours, pending, submitOk) ==
  IF ~enabled THEN pending
  ELSE IF submitOk
    THEN [submitted |-> TRUE,
          earliestBeginSeconds |-> Max((intervalHours * 60 * 60) \div Hundredths, 15 * 60)]
    ELSE pending

\* enableBackgroundSync stamping the time of the last sync
IosEnableBackgroundSync_StampsLastSync(options, submitOk) ==
  LET interval == IF "syncInterval" \in DOMAIN options
                    THEN options.syncInterval ELSE syncIntervalHours
  IN  /\ syncIntervalHours' = interval
      /\ backgroundSyncEnabled' = TRUE
      /\ observerQueries' = observerQueries \o ObservedSampleTypes
      /\ pendingRequest' = scheduleBackgroundHealthSync(TRUE, interval, pendingRequest, submitOk)
      /\ lastEvent' = [name |-> "onBackgroundSyncComplete", success |-> TRUE,
                       syncedDataTypes |-> IF "dataTypes" \in DOMAIN options
                                             THEN options.dataTypes ELSE << >>,
                       error |-> NullString]
      /\ lastSyncTimestamp' = "2024-01-03T00:00:00Z"
      /\ UNCHANGED << backgroundTaskHandlerRegistered, launchHandlers >>

\* Swift enableBackgroundSync(options:)
IosEnableBackgroundSync(options, submitOk) ==
  LET interval == IF "syncInterval" \in DOMAIN options
                    THEN options.syncInterval ELSE syncIntervalHours
  IN  /\ syncIntervalHours' = interval
      /\ backgroundSyncEnabled' = TRUE
      /\ observerQueries' = observerQueries \o ObservedSampleTypes
      /\ pendingRequest' = scheduleBackgroundHealthSync(TRUE, interval, pendingRequest, submitOk)
      /\ lastEvent' = [name |-> "onBackgroundSyncComplete", success |-> TRUE,
                       syncedDataTypes |-> IF "dataTypes" \in DOMAIN options
                                             THEN options.dataTypes ELSE << >>,
                       error |-> NullString]
      /\ UNCHANGED << lastSyncTimestamp, backgroundTaskHandlerRegistered, launchHandlers >>

\* the teardown undoing one setupHealthDataObserver only
IosDisableBackgroundSync_OneSetup ==
  /\ observerQueries' =
       SubSeq(observerQueries, 1, Max(Len(observerQueries) - Len(ObservedSampleTypes), 0))
  /\ pendingRequest' = NoRequest
  /\ backgroundSyncEnabled' = FALSE
  /\ UNCHANGED << syncIntervalHours, lastSyncTimestamp, backgroundTaskHandlerRegistered,
                  launchHandlers, lastEvent >>

\* Swift disableBackgroundSync()
IosDisableBackgroundSync ==
  /\ observerQueries' = << >>
  /\ pendingRequest' = NoRequest
  /\ backgroundSyncEnabled' = FALSE
  /\ UNCHANGED << syncIntervalHours, lastSyncTimestamp, backgroundTaskHandlerRegistered,
                  launchHandlers, lastEvent >>

\* Swift registerBackgroundTaskHandler()
IosRegisterBackgroundTaskHandler ==
  /\ IF backgroundTaskHandlerRegistered
       THEN UNCHANGED << launchHandlers, backgroundTaskHandlerRegistered >>
       ELSE /\ launchHandlers' = launchHandlers + 1
            /\ backgroundTaskHandlerRegistered' = TRUE
  /\ UNCHANGED << syncIntervalHours, observerQueries, backgroundSyncEnabled,
                  lastSyncTimestamp, pendingRequest, lastEvent >>

SuccessResult == [success |-> TRUE, error |-> NullString]

\* the status read from a flag that is never set
IosGetBackgroundSyncStatus_Stub(enabled, lastSync) ==
  [enabled |-> FALSE, lastSync |-> lastSync, error |-> NullString]

\* Swift getBackgroundSyncStatus()
IosGetBackgroundSyncStatus(enabled, lastSync) ==
  [enabled |-> enabled, lastSync |-> lastSync, error |-> NullString]

\* Kotlin AsyncFunction("getBackgroundSyncStatus")
AndroidGetBackgroundSyncStatus == [enabled |-> FALSE, lastSync |-> NullString]

BackgroundUnsupported ==
  [success |-> FALSE, error |-> "Background sync is only available on iOS and Android."]

\* index.ts: registerBackgroundTaskHandler
RegisterBackgroundTaskHandler(nb) ==
  /\ IF platform = "ios"
       THEN IF nb = "resolve"
              THEN /\ IosRegisterBackgroundTaskHandler
                   /\ Record(Call("registerBackgroundTaskHandler", NoExtra, nb, NoExtra, 0,
                                  "resolved", SuccessResult))
              ELSE /\ UNCHANGED iosState
                   /\ Record(Call("registerBackgroundTaskHandler", NoExtra, nb, NoExtra, 0,
                                  "rejected", Null))
     ELSE /\ UNCHANGED iosState
          /\ Record(Call("registerBackgroundTaskHandler", NoExtra, "none", NoExtra, 0,
                         "resolved",
                         IF platform = "android"
                           THEN [success |-> TRUE, error |-> Undefined]
                           ELSE BackgroundUnsupported))
  /\ UNCHANGED << env, procs >>

\* index.ts: enableBackgroundSync
EnableBackgroundSync(options, nb, submitOk) ==
  /\ IF platform = "ios"
       THEN IF nb = "resolve"
              THEN /\ Len(observerQueries) + Len(ObservedSampleTypes) <= MaxObservers
                   /\ IosEnableBackgroundSync(options, submitOk)
                   /\ Record(Call("enableBackgroundSync", options, nb, options, 0,
                                  "resolved", SuccessResult))
              ELSE /\ UNCHANGED iosState
                   /\ Record(Call("enableBackgroundSync", options, nb, options, 0,
                                  "rejected", Null))
     ELSE IF platform = "android"
       THEN /\ UNCHANGED iosState
            /\ Record(IF nb = "resolve"
                        THEN Call("enableBackgroundSync", options, nb, options, 0, "resolved",
                                  [success |-> FALSE,
                                   error |-> "Background sync handled by Expo BackgroundTask service. Enable sync in main app."])
                        ELSE Call("enableBackgroundSync", options, nb, options, 0,
                                  "rejected", Null))
     ELSE /\ UNCHANGED iosState
          /\ Record(Call("enableBackgroundSync", options, "none", NoExtra, 0, "resolved",
                         BackgroundUnsupported))
  /\ UNCHANGED << env, procs >>

\* index.ts: getBackgroundSyncStatus
GetBackgroundSyncStatus(nb) ==
  /\ IF platform \in {"ios", "android"}
       THEN Record(IF nb = "resolve"
                     THEN Call("getBackgroundSyncStatus", NoExtra, nb, NoExtra, 0, "resolved",
                               IF platform = "ios"
                                 THEN IosGetBackgroundSyncStatus(backgroundSyncEnabled,
                                                                 lastSyncTimestamp)
                                 ELSE AndroidGetBackgroundSyncStatus)
                     ELSE Call("getBackgroundSyncStatus", NoExtra, nb, NoExtra, 0,
                               "rejected", Null))
       ELSE Record(Call("getBackgroundSyncStatus", NoExtra, "none", NoExtra, 0, "resolved",
                        [enabled |-> FALSE, lastSync |-> NullString,
                         error |-> "Background sync is only available on iOS and Android."]))
  /\ UNCHANGED << env, iosState, procs >>

\* index.ts: disableBackgroundSync
DisableBackgroundSync(nb) ==
  /\ IF platform = "ios"
       THEN IF nb = "resolve"
              THEN /\ IosDisableBackgroundSync
                   /\ Record(Call("disableBackgroundSync", NoExtra, nb, NoExtra, 0,
                                  "resolved", SuccessResult))
              ELSE /\ UNCHANGED iosState
                   /\ Record(Call("disableBackgroundSync", NoExtra, nb, NoExtra, 0,
                                  "rejected", Null))
     ELSE IF platform = "android"
       THEN /\ UNCHANGED iosState
            /\ Record(IF nb = "resolve"
                        THEN Call("disableBackgroundSync", NoExtra, nb, NoExtra, 0,
                                  "resolved", SuccessResult)
                        ELSE Call("disableBackgroundSync", NoExtra, nb, NoExtra, 0,
                                  "rejected", Null))
     ELSE /\ UNCHANGED iosState
          /\ Record(Call("disableBackgroundSync", NoExtra, "none", NoExtra, 0, "resolved",
                         BackgroundUnsupported))
  /\ UNCHANGED << env, procs >>

-----------------------------------------------------------------------------
(* ExpoHealthkitModule.swift: AsyncFunction("getHealthData") step by step: the *)
(* handler up to its wait, the query's results handler on HealthKit's queue,  *)
(* the wait on the semaphore, and promise.resolve.                            *)

\* the options of the calls followed step by step
QueryInputs ==
  { Options(id, ValidDate, ValidDate, NoExtra) :
      id \in { "HKQuantityTypeIdentifierStepCount",
               "HKQuantityTypeIdentifierHeartRateRecoveryOneMinute",
               "HKCategoryTypeIdentifierSleepAnalysis", "HKWorkoutTypeIdentifier",
               "HKBogus" } }
    \cup { Options("", ValidDate, ValidDate, NoExtra),
           Options("HKQuantityTypeIdentifierStepCount", ValidDate,
                   "2024-01-02T00:00:00.000Z", NoExtra),
           Options("HKQuantityTypeIdentifierStepCount", ValidDate, ValidDate,
                   [aggregation |-> "daily"]),
           Options("HKQuantityTypeIdentifierStepCount", ValidDate, ValidDate,
                   [limit |-> 1, ascending |-> FALSE]) }

\* the query built from the caller's limit and ascending options
HKSampleQueryRequest_CallerOptions(args) ==
  [sampleType |-> args.identifier, start |-> args.startDate, end |-> args.endDate,
   limit |-> IF "limit" \in DOMAIN args THEN ToString(args.limit) ELSE "HKObjectQueryNoLimit",
   ascending |-> IF "ascending" \in DOMAIN args THEN args.ascending ELSE TRUE]

\* HKSampleQuery(sampleType: type, predicate: predicate, limit:
\* HKObjectQueryNoLimit, sortDescriptors: [start date, ascending: true]); the
\* predicate's two dates are written as the strings they were parsed from
HKSampleQueryRequest(args) ==
  [sampleType |-> args.identifier, start |-> args.startDate, end |-> args.endDate,
   limit |-> "HKObjectQueryNoLimit", ascending |-> TRUE]

\* the wait made for the quantity list only
WaitsForSemaphore_QuantityOnly(identifier) ==
  identifier \in Range(quantityTypeIdentifiers)

\* `if quantityTypeIdentifiers.contains(identifier) || ... { semaphore.wait() }`
WaitsForSemaphore(identifier) ==
  identifier \in Range(quantityTypeIdentifiers) \cup Range(categoryTypeIdentifiers)
                   \cup Range(workoutTypeIdentifiers)

\* the else branch writing `result` without signalling the semaphore
QueryStart_NoSignal(c, args) ==
  /\ platform = "ios"
  /\ queries[c].pc = "idle"
  /\ LET native == IosGetHealthData(args, NoRead, ios16)
         q == [IdleQuery EXCEPT !.args = args]
     IN  queries' = [queries EXCEPT ![c] =
           IF native.reads = 1
             THEN [q EXCEPT !.pc = "wait", !.reads = 1,
                            !.request = HKSampleQueryRequest(args)]
           ELSE IF native.result.error.code = "unsupported_identifier"
             THEN [q EXCEPT !.pc = "wait", !.result = native.result]
           ELSE [q EXCEPT !.pc = "done", !.resolves = 1, !.resolved = native.result]]
  /\ UNCHANGED << env, iosState, lastCall, prevCall, observer, refresh, firstSupported >>

\* The handler from its entry to the end of the if-chain: a guard resolves the
\* promise and returns, a query branch hands its query to healthStore.execute,
\* the else branch writes `result` and signals the semaphore.
QueryStart(c, args) ==
  /\ platform = "ios"
  /\ queries[c].pc = "idle"
  /\ LET native == IosGetHealthData(args, NoRead, ios16)
         q == [IdleQuery EXCEPT !.args = args]
     IN  queries' = [queries EXCEPT ![c] =
           IF native.reads = 1
             THEN [q EXCEPT !.pc = "wait", !.reads = 1,
                            !.request = HKSampleQueryRequest(args)]
           ELSE IF native.result.error.code = "unsupported_identifier"
             THEN [q EXCEPT !.pc = "wait", !.result = native.result, !.semaphore = 1]
           ELSE [q EXCEPT !.pc = "done", !.resolves = 1, !.resolved = native.result]]
  /\ UNCHANGED << env, iosState, lastCall, prevCall, observer, refresh, firstSupported >>

\* the results handler writing a `result` shared by the calls in flight
QueryResultsHandler_SharedResult(c, outcome) ==
  /\ platform = "ios"
  /\ queries[c].reads = 1
  /\ queries[c].completions = 0
  /\ LET identifier == queries[c].args.identifier
         written == QueryCompletion(IosBranch(identifier, ios16), identifier, outcome, ios16)
     IN  queries' = [d \in CallIds |->
           IF d = c
             THEN [queries[d] EXCEPT !.result = written,
                                     !.semaphore = @ + 1,
                                     !.completions = 1,
                                     !.outcome = outcome]
           ELSE IF queries[d].pc \in {"wait", "resolve"}
             THEN [queries[d] EXCEPT !.result = written]
           ELSE queries[d]]
  /\ UNCHANGED << env, iosState, lastCall, prevCall, observer, refresh, firstSupported >>

\* the HKSampleQuery's results handler: writes `result`, signals the semaphore
QueryResultsHandler(c, outcome) ==
  /\ platform = "ios"
  /\ queries[c].reads = 1
  /\ queries[c].completions = 0
  /\ LET identifier == queries[c].args.identifier
     IN  queries' = [queries EXCEPT ![c] =
           [@ EXCEPT !.result = QueryCompletion(IosBranch(identifier, ios16), identifier,
                                                outcome, ios16),
                     !.semaphore = @ + 1,
                     !.completions = 1,
                     !.outcome = outcome]]
  /\ UNCHANGED << env, iosState, lastCall, prevCall, observer, refresh, firstSupported >>

\* the conditional semaphore.wait()
QueryWait(c) ==
  /\ queries[c].pc = "wait"
  /\ IF WaitsForSemaphore(queries[c].args.identifier)
       THEN /\ queries[c].semaphore > 0
            /\ queries' = [queries EXCEPT ![c] =
                             [@ EXCEPT !.semaphore = @ - 1, !.pc = "resolve"]]
       ELSE queries' = [queries EXCEPT ![c] = [@ EXCEPT !.pc = "resolve"]]
  /\ UNCHANGED << env, iosState, lastCall, prevCall, observer, refresh, firstSupported >>

\* promise.resolve(result)
QueryResolve(c) ==
  /\ queries[c].pc = "resolve"
  /\ queries' = [queries EXCEPT ![c] =
                   [@ EXCEPT !.resolves = @ + 1, !.resolved = queries[c].result,
                              !.pc = "done"]]
  /\ UNCHANGED << env, iosState, lastCall, prevCall, observer, refresh, firstSupported >>

-----------------------------------------------------------------------------
(* ExpoHealthkitModule.kt: AsyncFunction("getHealthData") step by step: the   *)
(* handler up to moduleScope.launch, the coroutine up to its suspension in   *)
(* readRecords, and the coroutine from the response to promise.resolve.      *)

\* the options of the Android calls followed step by step; the handler takes a
\* Map<String, String>
AndroidQueryInputs ==
  { Options(id, ValidDate, ValidDate, [aggregation |-> "raw"]) :
      id \in { "Steps", "SleepSession", "HKQuantityTypeIdentifierStepCount", Absent } }
    \cup { Options("Steps", ValidDate, d, [aggregation |-> "raw"]) :
             d \in { Absent, "2024-01-02T00:00:00", "2024-01-02T00:00:00.000Z" } }
    \cup { Options("bogus-id", "not-a-date", ValidDate, [aggregation |-> "raw"]),
           Options("Steps", ValidDate, ValidDate, [aggregation |-> "daily"]),
           Options("Steps", ValidDate, ValidDate,
                   [aggregation |-> "raw", limit |-> "1", ascending |-> "false"]) }

\* ReadRecordsRequest(recordType = recordTypeInfo.first, timeRangeFilter =
\* TimeRangeFilter.between(startTime, endTime)): the order, the page size and
\* the page token are left to the library's defaults; the record class is
\* written as its key of recordTypeMap and the instants as the strings they
\* were parsed from
ReadRecordsRequest(args) ==
  [recordType |-> args.identifier, startTime |-> args.startDate, endTime |-> args.endDate]

\* The handler from its entry to moduleScope.launch: each of the three checks
\* resolves the promise and returns.
AndroidQueryStart(c, args) ==
  /\ platform = "android"
  /\ queries[c].pc = "idle"
  /\ LET native == AndroidGetHealthData(args, NoRead, hcInstalled)
         q == [IdleQuery EXCEPT !.args = args]
     IN  queries' = [queries EXCEPT ![c] =
           IF native.reads = 0 /\ native.result.error.code # "query_error"
             THEN [q EXCEPT !.pc = "done", !.resolves = 1, !.resolved = native.result]
           ELSE [q EXCEPT !.pc = "launched"]]
  /\ UNCHANGED << env, iosState, lastCall, prevCall, observer, refresh, firstSupported >>

\* The coroutine up to healthConnectClient.readRecords(request): a date that
\* Instant.parse rejects throws into the catch block, which resolves the
\* promise.
AndroidQueryLaunch(c) ==
  /\ platform = "android"
  /\ queries[c].pc = "launched"
  /\ LET native == AndroidGetHealthData(queries[c].args, NoRead, hcInstalled)
     IN  queries' = [queries EXCEPT ![c] =
           IF native.reads = 0
             THEN [@ EXCEPT !.pc = "done", !.resolves = 1, !.resolved = native.result]
           ELSE [@ EXCEPT !.pc = "reading", !.reads = 1,
                          !.request = ReadRecordsRequest(queries[c].args)]]
  /\ UNCHANGED << env, iosState, lastCall, prevCall, observer, refresh, firstSupported >>

\* readRecords returns or throws: the records are formatted and the promise
\* resolved, or the catch block resolves it
AndroidQueryResponse(c, outcome) ==
  /\ platform = "android"
  /\ queries[c].pc = "reading"
  /\ LET native == AndroidGetHealthData(queries[c].args, outcome, hcInstalled)
     IN  queries' = [queries EXCEPT ![c] =
           [@ EXCEPT !.pc = "done", !.completions = 1, !.outcome = outcome,
                     !.result = native.result,
                     !.resolves = queries[c].resolves + 1, !.resolved = native.result]]
  /\ UNCHANGED << env, iosState, lastCall, prevCall, observer, refresh, firstSupported >>

-----------------------------------------------------------------------------
(* HealthKit and BGTaskScheduler calling back into the iOS module.  The update *)
(* handler of an observer query and the launch handler of the refresh task    *)
(* run on queues of their own, beside the public calls; each action below is  *)
(* one read or write of the module's fields, or one call into the OS.         *)

\* the timestamps isoFormatter.string(from: Date()) produces
TimestampInputs == { "2024-01-03T00:00:00Z" }

\* the queries whose update handler the model lets run: the first and the last
\* installed one
ObserverInputs == { i \in DOMAIN observerQueries : i = 1 \/ i = Len(observerQueries) }

HealthDataChange(dataType) ==
  [name |-> "onHealthDataChange", dataType |-> dataType, samplesAdded |-> 1]

\* HealthKit hands an update of a running observer query to its handler
ObserverUpdate(i) ==
  /\ platform = "ios"
  /\ observer.pc = "idle"
  /\ i \in DOMAIN observerQueries
  /\ observer' = [pc |-> "called", dataType |-> observerQueries[i]]
  /\ UNCHANGED << env, iosState, lastCall, prevCall, refresh, queries, firstSupported >>

\* the handler's body: `if error == nil`, `if self.backgroundSyncEnabled`
ObserverCheck(error) ==
  /\ observer.pc = "called"
  /\ IF error
       THEN observer' = IdleObserver /\ UNCHANGED lastEvent
     ELSE IF backgroundSyncEnabled
       THEN observer' = [observer EXCEPT !.pc = "schedule"] /\ UNCHANGED lastEvent
     ELSE /\ observer' = IdleObserver
          /\ lastEvent' = HealthDataChange(observer.dataType)
  /\ UNCHANGED << env, syncIntervalHours, observerQueries, backgroundSyncEnabled,
                  lastSyncTimestamp, backgroundTaskHandlerRegistered, launchHandlers,
                  pendingRequest, lastCall, prevCall, refresh, queries, firstSupported >>

\* scheduleBackgroundHealthSync, called by the handler: `guard backgroundSyncEnabled`
ObserverSchedule ==
  /\ observer.pc = "schedule"
  /\ IF backgroundSyncEnabled
       THEN observer' = [observer EXCEPT !.pc = "submit"] /\ UNCHANGED lastEvent
       ELSE /\ observer' = IdleObserver
            /\ lastEvent' = HealthDataChange(observer.dataType)
  /\ UNCHANGED << env, syncIntervalHours, observerQueries, backgroundSyncEnabled,
                  lastSyncTimestamp, backgroundTaskHandlerRegistered, launchHandlers,
                  pendingRequest, lastCall, prevCall, refresh, queries, firstSupported >>

\* the request is built and submitted, then the handler sends its event
ObserverSubmit(submitOk) ==
  /\ observer.pc = "submit"
  /\ pendingRequest' =
       scheduleBackgroundHealthSync(TRUE, syncIntervalHours, pendingRequest, submitOk)
  /\ lastEvent' = HealthDataChange(observer.dataType)
  /\ observer' = IdleObserver
  /\ UNCHANGED << env, syncIntervalHours, observerQueries, backgroundSyncEnabled,
                  lastSyncTimestamp, backgroundTaskHandlerRegistered, launchHandlers,
                  lastCall, prevCall, refresh, queries, firstSupported >>

\* The system launches the pending refresh task.  A launch handler exists from
\* load time on (BackgroundTaskEarlyRegistrar); it posts the notification whose
\* observer, like the module's own launch handler, calls handleBackgroundRefresh.
RefreshLaunch ==
  /\ platform = "ios"
  /\ refresh.pc = "idle"
  /\ pendingRequest.submitted
  /\ launchHandlers >= 1
  /\ pendingRequest' = NoRequest
  /\ refresh' = [pc |-> "schedule"]
  /\ UNCHANGED << env, syncIntervalHours, observerQueries, backgroundSyncEnabled,
                  lastSyncTimestamp, backgroundTaskHandlerRegistered, launchHandlers,
                  lastEvent, lastCall, prevCall, observer, queries, firstSupported >>

\* handleBackgroundRefresh: scheduleBackgroundHealthSync's guard
RefreshSchedule ==
  /\ refresh.pc = "schedule"
  /\ refresh' = [pc |-> IF backgroundSyncEnabled THEN "submit" ELSE "operation"]
  /\ UNCHANGED << env, iosState, lastCall, prevCall, observer, queries, firstSupported >>

\* handleBackgroundRefresh: the next request is built and submitted
RefreshSubmit(submitOk) ==
  /\ refresh.pc = "submit"
  /\ pendingRequest' =
       scheduleBackgroundHealthSync(TRUE, syncIntervalHours, pendingRequest, submitOk)
  /\ refresh' = [pc |-> "operation"]
  /\ UNCHANGED << env, syncIntervalHours, observerQueries, backgroundSyncEnabled,
                  lastSyncTimestamp, backgroundTaskHandlerRegistered, launchHandlers,
                  lastEvent, lastCall, prevCall, observer, queries, firstSupported >>

\* an expired task switching background sync off
RefreshOperation_DisablesOnExpiry(timestamp, cancelled) ==
  /\ refresh.pc = "operation"
  /\ IF cancelled
       THEN backgroundSyncEnabled' = FALSE /\ UNCHANGED << lastSyncTimestamp, lastEvent >>
       ELSE /\ lastSyncTimestamp' = timestamp
            /\ lastEvent' = [name |-> "onBackgroundSyncComplete", success |-> TRUE,
                             syncedDataTypes |-> << >>, error |-> NullString]
            /\ UNCHANGED backgroundSyncEnabled
  /\ refresh' = IdleRefresh
  /\ UNCHANGED << env, syncIntervalHours, observerQueries,
                  backgroundTaskHandlerRegistered, launchHandlers, pendingRequest,
                  lastCall, prevCall, observer, queries, firstSupported >>

\* handleBackgroundRefresh: the queued operation runs, unless the task expired
\* and the operation was cancelled first
RefreshOperation(timestamp, cancelled) ==
  /\ refresh.pc = "operation"
  /\ IF cancelled
       THEN UNCHANGED << lastSyncTimestamp, lastEvent >>
       ELSE /\ lastSyncTimestamp' = timestamp
            /\ lastEvent' = [name |-> "onBackgroundSyncComplete", success |-> TRUE,
                             syncedDataTypes |-> << >>, error |-> NullString]
  /\ refresh' = IdleRefresh
  /\ UNCHANGED << env, syncIntervalHours, observerQueries, backgroundSyncEnabled,
                  backgroundTaskHandlerRegistered, launchHandlers, pendingRequest,
                  lastCall, prevCall, observer, queries, firstSupported >>

\* the health-data entry points and helpers
DataNext ==
  \/ \E nb \in NativeBehaviours, a \in AuthOutcomes : AuthorizeHealthKit(nb, a)
  \/ \E o \in HealthDataInputs, nb \in NativeBehaviours, r \in ReadOutcomes :
       GetHealthData(o, nb, r)
  \/ \E o \in HealthDataInputs : WebModuleGetHealthData(o)
  \/ \E id \in PlatformIdentifierInputs : GetPlatformIdentifier(id)

\* the background-sync entry points
SyncNext ==
  \/ \E nb \in NativeBehaviours : RegisterBackgroundTaskHandler(nb)
  \/ \E o \in BackgroundSyncInputs, nb \in NativeBehaviours, ok \in BOOLEAN :
       EnableBackgroundSync(o, nb, ok)
  \/ \E nb \in NativeBehaviours : GetBackgroundSyncStatus(nb)
  \/ \E nb \in NativeBehaviours : DisableBackgroundSync(nb)

Next == DataNext \/ SyncNext

Spec == Init /\ [][Next]_vars

\* the module used for health data only
DataSpec == Init /\ [][DataNext]_vars

\* the module used for background sync only
SyncSpec == Init /\ [][SyncNext]_vars

\* the iOS normalizers applied to every kind of sample
NormalizeNext ==
  \E a \in NativeQueryInputs, r \in NativeReadOutcomes : NativeGetHealthData(a, r)

NormalizeSpec == Init /\ [][NormalizeNext]_vars

\* the options objects passed to enableBackgroundSync while the OS calls back
ConcurrentSyncInputs ==
  { NoExtra } \cup { [syncInterval |-> h] : h \in SyncIntervalInputs }

\* the iOS module with its callbacks: the public calls whose native handler
\* answers, one at a time, interleaved with the steps of an observer update
\* and of a background refresh
BackgroundNext ==
  \/ RegisterBackgroundTaskHandler("resolve")
  \/ \E o \in ConcurrentSyncInputs, ok \in BOOLEAN : EnableBackgroundSync(o, "resolve", ok)
  \/ GetBackgroundSyncStatus("resolve")
  \/ DisableBackgroundSync("resolve")
  \/ GetHealthData(Options("stepCount", ValidDate, ValidDate, NoExtra), "resolve", NoRead)
  \/ \E i \in ObserverInputs : ObserverUpdate(i)
  \/ \E error \in BOOLEAN : ObserverCheck(error)
  \/ ObserverSchedule
  \/ \E ok \in BOOLEAN : ObserverSubmit(ok)
  \/ RefreshLaunch
  \/ RefreshSchedule
  \/ \E ok \in BOOLEAN : RefreshSubmit(ok)
  \/ \E t \in TimestampInputs, cancelled \in BOOLEAN : RefreshOperation(t, cancelled)

BackgroundSpec == Init /\ [][BackgroundNext]_vars

\* native getHealthData calls, each followed through its steps
QueryNext ==
  \/ \E c \in CallIds, a \in QueryInputs : QueryStart(c, a)
  \/ \E c \in CallIds, r \in ReadOutcomes : QueryResultsHandler(c, r)
  \/ \E c \in CallIds : QueryWait(c)
  \/ \E c \in CallIds : QueryResolve(c)
  \/ \E c \in CallIds, a \in AndroidQueryInputs : AndroidQueryStart(c, a)
  \/ \E c \in CallIds : AndroidQueryLaunch(c)
  \/ \E c \in CallIds, r \in ReadOutcomes : AndroidQueryResponse(c, r)

QuerySpec == Init /\ [][QueryNext]_vars

\* the options of the calls followed to their end: one call per way through
\* the handler (a query, the else branch with and without the wait, a guard)
QueryLiveInputs ==
  { Options(id, ValidDate, ValidDate, NoExtra) :
      id \in { "HKQuantityTypeIdentifierStepCount",
               "HKQuantityTypeIdentifierHeartRateRecoveryOneMinute",
               "HKBogus", "" } }

\* the iOS calls alone
QueryLiveNext ==
  \/ \E c \in CallIds, a \in QueryLiveInputs : QueryStart(c, a)
  \/ \E c \in CallIds, r \in ReadOutcomes : QueryResultsHandler(c, r)
  \/ \E c \in CallIds : QueryWait(c)
  \/ \E c \in CallIds : QueryResolve(c)

\* The thread running a handler keeps running: a semaphore.wait() that can
\* return does return, and promise.resolve follows it.  Nothing is assumed of
\* HealthKit: a query handed to healthStore.execute may never call its
\* results handler.
QueryLiveSpec ==
  /\ Init /\ [][QueryLiveNext]_vars
  /\ \A c \in CallIds : WF_vars(QueryWait(c)) /\ WF_vars(QueryResolve(c))

\* every unified identifier resolved by getPlatformIdentifier and queried by
\* getHealthData
MappingNext ==
  \/ \E u \in UnifiedIdentifiers : GetPlatformIdentifier(u)
  \/ \E u \in UnifiedIdentifiers, nb \in NativeBehaviours, r \in ReadOutcomes :
       GetHealthData(Options(u, ValidDate, ValidDate, NoExtra), nb, r)

MappingSpec == Init /\ [][MappingNext]_vars

\* getSupportedIdentifiers called between the calls that change the module's
\* state
IdentifiersNext ==
  \/ GetSupportedIdentifiers
  \/ \E nb \in NativeBehaviours : RegisterBackgroundTaskHandler(nb)
  \/ \E o \in ConcurrentSyncInputs, ok \in BOOLEAN : EnableBackgroundSync(o, "resolve", ok)
  \/ \E nb \in NativeBehaviours : DisableBackgroundSync(nb)

IdentifiersSpec == Init /\ [][IdentifiersNext]_vars

-----------------------------------------------------------------------------
(* Properties *)

RequiredFields == {"identifier", "startDate", "endDate"}

\* s with every digit replaced by "9"
RECURSIVE Shape(_)
Shape(s) ==
  IF Len(s) = 0 THEN ""
  ELSE (IF CharAt(s, 1) \in Digits THEN "9" ELSE CharAt(s, 1)) \o Shape(SubSeq(s, 2, Len(s)))

\* the pattern YYYY-MM-DDTHH:mm:ss[.sss]Z?
MatchesDatePattern(s) ==
  Shape(s) \in { "9999-99-99T99:99:99", "9999-99-99T99:99:99Z",
                 "9999-99-99T99:99:99.999", "9999-99-99T99:99:99.999Z" }

\* a date of the form YYYY-MM-DDTHH:mm:ssZ that names a real instant
IsPlainInstant(s) == Shape(s) = "9999-99-99T99:99:99Z" /\ FieldsInRange(s)

AllFieldsGiven(options) ==
  \A f \in RequiredFields : f \in DOMAIN options /\ options[f] # ""

\* the identifiers the platform's native module accepts
NativeIdentifiers(os) ==
  IF os = "ios"
    THEN Range(quantityTypeIdentifiers) \cup Range(categoryTypeIdentifiers)
           \cup Range(workoutTypeIdentifiers)
  ELSE IF os = "android" THEN Range(recordTypeMapKeys)
  ELSE {}

IsFailureWith(call, code) ==
  /\ call.settled = "resolved"
  /\ call.result.success = FALSE
  /\ call.result.data = << >>
  /\ call.result.error # Null
  /\ call.result.error.code = code

\* C1: a getHealthData call with identifier, startDate or endDate absent or
\* empty resolves, on every platform, with success=false, data=[] and
\* error.code="missing_arguments", and makes no native call.
C1_MissingArguments ==
  ( /\ lastCall.op = "getHealthData"
    /\ \E f \in RequiredFields : f \notin DOMAIN lastCall.input \/ lastCall.input[f] = "" )
  => /\ IsFailureWith(lastCall, "missing_arguments")
     /\ lastCall.nativeCalls = 0

C1_Witness ==
  /\ lastCall.op = "getHealthData"
  /\ platform = "ios"
  /\ "identifier" \in DOMAIN lastCall.input /\ lastCall.input.identifier = ""
  /\ AllFieldsGiven([lastCall.input EXCEPT !.identifier = "stepCount"])
  /\ IsFailureWith(lastCall, "missing_arguments")

\* C2: a getHealthData call with the three fields given whose startDate or
\* endDate does not match YYYY-MM-DDTHH:mm:ss[.sss]Z? resolves with
\* success=false, data=[] and error.code="invalid_date" on every platform,
\* without a native call.
C2_InvalidDate ==
  ( /\ lastCall.op = "getHealthData"
    /\ AllFieldsGiven(lastCall.input)
    /\ ~MatchesDatePattern(lastCall.input.startDate)
         \/ ~MatchesDatePattern(lastCall.input.endDate) )
  => /\ IsFailureWith(lastCall, "invalid_date")
     /\ lastCall.nativeCalls = 0

C2_Witness ==
  /\ lastCall.op = "getHealthData"
  /\ AllFieldsGiven(lastCall.input)
  /\ MatchesDatePattern(lastCall.input.startDate)
  /\ lastCall.input.endDate = "2024-01-02T00:00:00.00Z"
  /\ platform = "android"
  /\ IsFailureWith(lastCall, "invalid_date")

\* the case of C3: an identifier outside the mapping table and outside the
\* platform's native identifiers
UnknownIdentifierCall ==
  /\ lastCall.op = "getHealthData"
  /\ AllFieldsGiven(lastCall.input)
  /\ lastCall.input.identifier \notin UnifiedIdentifiers
  /\ lastCall.input.identifier \notin NativeIdentifiers(platform)

\* C3 as stated: for every identifier that is neither unified nor native to
\* the current platform, getHealthData with two valid dates (here: valid for
\* every parser) returns success=false, data=[], error.code="unsupported_identifier".
C3_Original ==
  ( /\ UnknownIdentifierCall
    /\ IsPlainInstant(lastCall.input.startDate)
    /\ IsPlainInstant(lastCall.input.endDate) )
  => IsFailureWith(lastCall, "unsupported_identifier")

\* C3, amended: on iOS, and on Android with Health Connect installed, for such
\* an identifier and two dates of the form YYYY-MM-DDTHH:mm:ssZ, the native
\* module is called once and answers success=false, data=[],
\* error.code="unsupported_identifier" without a read, and the call resolves
\* with that answer; a call whose native call fails ends as C4 describes
\* (error.code="exception", or on Android a rejected promise).
C3_UnsupportedIdentifier ==
  ( /\ UnknownIdentifierCall
    /\ IsPlainInstant(lastCall.input.startDate)
    /\ IsPlainInstant(lastCall.input.endDate)
    /\ platform = "ios" \/ (platform = "android" /\ hcInstalled) )
  => /\ lastCall.nativeCalls = 1
     /\ lastCall.osCalls = 0
     /\ IF lastCall.native = "resolve"
          THEN IsFailureWith(lastCall, "unsupported_identifier")
          ELSE lastCall.settled = "rejected" \/ IsFailureWith(lastCall, "exception")

C3_Witness ==
  /\ UnknownIdentifierCall
  /\ platform = "ios"
  /\ lastCall.input.identifier = "HKBogus"
  /\ lastCall.native = "resolve"
  /\ IsFailureWith(lastCall, "unsupported_identifier")

\* C4: the promise of a public asynchronous entry point never rejects,
\* whatever the native module does.
C4_NeverRejects == lastCall.settled = "resolved"

\* C5: every result of getHealthData (facade, native modules, web module) has
\* error null when success=true, and data=[] with an error carrying a
\* non-empty code and a message when success=false.
C5_ResultShape ==
  ( /\ lastCall.op \in {"getHealthData", "module.getHealthData"}
    /\ lastCall.settled = "resolved" )
  => IF lastCall.result.success
       THEN lastCall.result.error = Null
       ELSE /\ lastCall.result.data = << >>
            /\ lastCall.result.error # Null
            /\ lastCall.result.error.code # ""
            /\ "message" \in DOMAIN lastCall.result.error

C5_Witness ==
  /\ lastCall.op = "getHealthData"
  /\ platform = "ios"
  /\ lastCall.native = "resolve"
  /\ lastCall.osCalls = 1
  /\ IsFailureWith(lastCall, "query_error")

\* C6: on a platform other than iOS and Android, authorizeHealthKit and
\* getHealthData resolve with success=false and make no native call, and the
\* getHealthData error code is "unsupported_platform" or "permission_denied"
\* when the required fields are given and the dates match the pattern.
C6_UnsupportedPlatform ==
  ( /\ platform \notin {"ios", "android"}
    /\ lastCall.op \in {"authorizeHealthKit", "getHealthData"} )
  => /\ lastCall.settled = "resolved"
     /\ lastCall.result.success = FALSE
     /\ lastCall.nativeCalls = 0
     /\ ( /\ lastCall.op = "getHealthData"
          /\ AllFieldsGiven(lastCall.input)
          /\ MatchesDatePattern(lastCall.input.startDate)
          /\ MatchesDatePattern(lastCall.input.endDate) )
        => lastCall.result.error.code \in {"unsupported_platform", "permission_denied"}

C6_Witness ==
  /\ platform = "web"
  /\ lastCall.op = "getHealthData"
  /\ AllFieldsGiven(lastCall.input)
  /\ lastCall.input.identifier = "stepCount"
  /\ IsFailureWith(lastCall, "permission_denied")

\* C7: for each of the ten unified identifiers, getPlatformIdentifier returns
\* the documented HK* string on iOS and the documented Health Connect record
\* name on Android.
C7_DocumentedMapping ==
  ( /\ lastCall.op = "getPlatformIdentifier"
    /\ lastCall.input \in DOMAIN DocumentedIdentifiers
    /\ platform \in {"ios", "android"} )
  => lastCall.result = ( IF platform = "ios"
                           THEN DocumentedIdentifiers[lastCall.input].ios
                           ELSE DocumentedIdentifiers[lastCall.input].android )

C7_Witness ==
  /\ lastCall.op = "getPlatformIdentifier"
  /\ platform = "android"
  /\ lastCall.input = "distanceWalkingRunning"
  /\ lastCall.result = "Distance"

\* C8: for every string that is not a unified identifier, getPlatformIdentifier
\* and the identifier resolution inside getHealthData yield the string
\* unchanged, on iOS and on Android.
C8_PassThrough ==
  /\ ( /\ lastCall.op = "getPlatformIdentifier"
       /\ platform \in {"ios", "android"}
       /\ lastCall.input \notin DOMAIN DocumentedIdentifiers )
     => lastCall.result = lastCall.input
  /\ ( /\ lastCall.op = "getHealthData"
       /\ lastCall.nativeCalls = 1
       /\ lastCall.input.identifier \notin DOMAIN DocumentedIdentifiers )
     => lastCall.nativeArgs.identifier = lastCall.input.identifier

\* C9 as stated: on iOS and on Android, getBackgroundSyncStatus right after
\* enableBackgroundSync reports enabled=true, and right after
\* disableBackgroundSync reports enabled=false.
C9_Original ==
  ( /\ platform \in {"ios", "android"}
    /\ lastCall.op = "getBackgroundSyncStatus" /\ lastCall.native = "resolve"
    /\ prevCall.native = "resolve" )
  => /\ prevCall.op = "enableBackgroundSync" => lastCall.result.enabled = TRUE
     /\ prevCall.op = "disableBackgroundSync" => lastCall.result.enabled = FALSE

\* C9, amended: on iOS, getBackgroundSyncStatus right after enableBackgroundSync
\* reports enabled=true; on iOS and on Android, right after disableBackgroundSync
\* it reports enabled=false; on Android it reports enabled=false after
\* enableBackgroundSync too.
C9_EnableDisableStatus ==
  ( /\ platform \in {"ios", "android"}
    /\ lastCall.op = "getBackgroundSyncStatus" /\ lastCall.native = "resolve"
    /\ prevCall.native = "resolve" )
  => /\ prevCall.op = "enableBackgroundSync"
          => lastCall.result.enabled = (platform = "ios")
     /\ prevCall.op = "disableBackgroundSync" => lastCall.result.enabled = FALSE

C9_Witness ==
  /\ platform = "ios"
  /\ prevCall = [op |-> "enableBackgroundSync", native |-> "resolve"]
  /\ lastCall.op = "getBackgroundSyncStatus" /\ lastCall.native = "resolve"
  /\ lastCall.result.enabled = TRUE

\* C10: on iOS authorizeHealthKit issues exactly one permission request and
\* reports the full requested set as granted (denied empty) when the request
\* succeeds, and as denied (granted empty) on every failure outcome.
C10_GrantedOrDenied ==
  ( /\ platform = "ios"
    /\ lastCall.op = "authorizeHealthKit" /\ lastCall.native = "resolve" )
  => /\ lastCall.osCalls = 1
     /\ IF lastCall.result.success
          THEN lastCall.result.granted = IosRequestSet(ios16) /\ lastCall.result.denied = {}
          ELSE lastCall.result.denied = IosRequestSet(ios16) /\ lastCall.result.granted = {}

\* C11: on Android authorizeHealthKit always resolves and never rejects: with
\* Health Connect not installed the answer is success=false, granted=[],
\* denied=[] and an error text; otherwise it is success=true, granted = the 19
\* keys of recordTypeMap in their order, denied=[], error=null.
C11_AndroidAuthorize ==
  ( platform = "android" /\ lastCall.op = "authorizeHealthKit" )
  => /\ lastCall.settled = "resolved"
     /\ lastCall.result.denied = << >>
     /\ IF hcInstalled
          THEN /\ lastCall.result.success = TRUE
               /\ lastCall.result.granted = recordTypeMapKeys
               /\ Len(lastCall.result.granted) = 19
               /\ lastCall.result.error = NullString
          ELSE /\ lastCall.result.success = FALSE
               /\ lastCall.result.granted = << >>
               /\ lastCall.result.error # NullString

\* C12: the iOS enabled flag starts false and changes only in a step of
\* enableBackgroundSync (to true) or of disableBackgroundSync (to false);
\* registerBackgroundTaskHandler, getBackgroundSyncStatus, getHealthData, the
\* observer callbacks, the scheduling and the background-refresh handler
\* never change it.
C12_EnabledFlagWriters ==
  /\ backgroundSyncEnabled = FALSE
  /\ [][ backgroundSyncEnabled' # backgroundSyncEnabled
           => /\ UNCHANGED << observer, refresh >>
              /\ lastCall'.native = "resolve"
              /\ \/ backgroundSyncEnabled' /\ lastCall'.op = "enableBackgroundSync"
                 \/ ~backgroundSyncEnabled' /\ lastCall'.op = "disableBackgroundSync" ]_vars

\* the flag still set after a registration, an observer update and a
\* background refresh have run
C12_Witness ==
  /\ backgroundSyncEnabled
  /\ backgroundTaskHandlerRegistered
  /\ lastSyncTimestamp # NullString
  /\ lastEvent.name = "onHealthDataChange"
  /\ lastCall.op = "getHealthData"

\* C13: every enableBackgroundSync call that reaches the native module (iOS,
\* Android) emits one onBackgroundSyncComplete notification whose
\* syncedDataTypes list is empty, whatever dataTypes the options carry.
C13_EmptySyncedTypes ==
  ( /\ platform \in {"ios", "android"}
    /\ lastCall.op = "enableBackgroundSync" /\ lastCall.native = "resolve" )
  => /\ lastEvent.name = "onBackgroundSyncComplete"
     /\ lastEvent.syncedDataTypes = << >>

\* the names the claim gives to the sleep codes
SleepValueName(n) ==
  CASE n = 0 -> "HKCategoryValueSleepAnalysisInBed"
    [] n = 2 -> "HKCategoryValueSleepAnalysisAwake"
    [] n = 3 -> "HKCategoryValueSleepAnalysisAsleepCore"
    [] n = 4 -> "HKCategoryValueSleepAnalysisAsleepDeep"
    [] n = 5 -> "HKCategoryValueSleepAnalysisAsleepREM"
    [] OTHER -> "UNKNOWN_SLEEP_VALUE_" \o ToString(n)

\* a direct iOS native call that answered with normalized samples
NormalizedRead(identifiers) ==
  /\ lastCall.op = "native.getHealthData"
  /\ lastCall.input.options.identifier \in identifiers
  /\ lastCall.result.success

\* C14: the iOS normalizer gives a sleep-analysis sample of code 0, 2, 3, 4, 5
\* the value InBed, Awake, AsleepCore, AsleepDeep, AsleepREM (prefixed
\* HKCategoryValueSleepAnalysis) and of any other code n the value
\* "UNKNOWN_SLEEP_VALUE_n", on iOS 16 and later and before iOS 16 alike.
C14_SleepValueNames ==
  NormalizedRead({"HKCategoryTypeIdentifierSleepAnalysis"})
  => /\ Len(lastCall.result.data) = Len(lastCall.input.samples)
     /\ \A i \in DOMAIN lastCall.result.data :
          lastCall.result.data[i].value = SleepValueName(lastCall.input.samples[i])

C14_Witness ==
  /\ NormalizedRead({"HKCategoryTypeIdentifierSleepAnalysis"})
  /\ ~ios16
  /\ lastCall.input.samples = << 5 >>
  /\ lastCall.result.data[1].value = "HKCategoryValueSleepAnalysisAsleepREM"

\* the units the claim gives to the quantity identifiers
QuantityUnit(identifier) ==
  LET name == SubSeq(identifier, Len("HKQuantityTypeIdentifier") + 1, Len(identifier))
  IN  CASE name \in {"StepCount", "FlightsClimbed"} -> "count"
        [] name \in {"HeartRate", "RestingHeartRate", "HeartRateRecoveryOneMinute",
                     "RespiratoryRate"} -> "count/min"
        [] name \in {"DistanceWalkingRunning", "DistanceCycling"} -> "km"
        [] name \in {"ActiveEnergyBurned", "BasalEnergyBurned"} -> "kcal"
        [] name \in {"AppleExerciseTime", "AppleStandTime"} -> "min"
        [] name = "HeartRateVariabilitySDNN" -> "ms"
        [] name = "VO2Max" -> "ml/(kg*min)"

\* C15: each of the 14 identifiers of quantityTypeIdentifiers has a unit, so a
\* query for one of them never ends with internal_error, and each normalized
\* quantity sample carries the unit listed for its identifier.
C15_QuantityUnits ==
  /\ Len(quantityTypeIdentifiers) = 14
  /\ ( /\ lastCall.op = "native.getHealthData"
       /\ lastCall.input.options.identifier \in Range(quantityTypeIdentifiers) )
     => /\ lastCall.result.success \/ lastCall.result.error.code # "internal_error"
        /\ lastCall.result.success
             => /\ Len(lastCall.result.data) = Len(lastCall.input.samples)
                /\ \A i \in DOMAIN lastCall.result.data :
                     lastCall.result.data[i].unit
                       = QuantityUnit(lastCall.input.options.identifier)

C15_Witness ==
  /\ NormalizedRead({"HKQuantityTypeIdentifierHeartRateRecoveryOneMinute"})
  /\ ios16
  /\ Len(lastCall.result.data) = 1
  /\ lastCall.result.data[1].unit = "count/min"

C17_OneReadOneResolve ==
  \A c \in CallIds :
    LET q == queries[c] IN
      /\ q.reads <= 1
      /\ q.completions <= q.reads
      /\ q.resolves <= 1
      /\ q.pc = "done" <=> q.resolves = 1
      /\ (q.resolves = 1 /\ q.reads = 1)
           => q.completions = 1 /\ q.resolved = q.result

\* a call that read samples and resolved with them, and another that resolved
\* without a read
C17_Witness ==
  \E c, d \in CallIds :
    /\ queries[c].pc = "done" /\ queries[c].reads = 1 /\ queries[c].completions = 1
    /\ queries[c].resolved.success /\ Len(queries[c].resolved.data) = 1
    /\ queries[d].pc = "done" /\ queries[d].reads = 0
    /\ queries[d].resolved.error.code = "unsupported_identifier"

\* C18: however disableBackgroundSync interleaves with the observer callbacks
\* and the background-refresh handler, from its return until the next
\* enableBackgroundSync (the states in which the enabled flag is false, by
\* C12) no refresh request is pending in the OS scheduler.
C18_NoRequestWhileDisabled ==
  ~backgroundSyncEnabled => ~pendingRequest.submitted

\* C19: on iOS, with no callback running beside it, every disableBackgroundSync
\* call answers success=true and leaves the observer list empty and the
\* enabled flag false, however many enableBackgroundSync calls came before;
\* a disableBackgroundSync call that follows another changes nothing.
C19_DisableIdempotent ==
  [][ ( /\ platform = "ios"
        /\ lastCall'.op = "disableBackgroundSync" /\ lastCall'.native = "resolve" )
      => /\ observerQueries' = << >>
         /\ backgroundSyncEnabled' = FALSE
         /\ lastCall'.settled = "resolved"
         /\ lastCall'.result.success = TRUE
         /\ ( lastCall.op = "disableBackgroundSync" /\ lastCall.native = "resolve" )
              => UNCHANGED iosState ]_vars

\* two disableBackgroundSync calls in a row
C19_Witness ==
  /\ platform = "ios"
  /\ lastCall.op = "disableBackgroundSync" /\ lastCall.native = "resolve"
  /\ prevCall = [op |-> "disableBackgroundSync", native |-> "resolve"]
  /\ observerQueries = << >>
  /\ ~backgroundSyncEnabled
  /\ syncIntervalHours # 24 * Hundredths

NativeDateParses(os, date) ==
  IF os = "ios" THEN isoFormatterParses(date) ELSE InstantParses(date)

\* C21: on iOS and on Android (Health Connect installed), a getHealthData call
\* that reaches the native module with an identifier the module supports and a
\* startDate or endDate its date parser rejects (a date without the trailing
\* Z, or with fractional seconds) fails with error.code="invalid_date".
C21_NativeInvalidDate ==
  ( /\ lastCall.op = "getHealthData" /\ lastCall.native = "resolve"
    /\ platform = "ios" \/ (platform = "android" /\ hcInstalled)
    /\ lastCall.nativeArgs.identifier \in NativeIdentifiers(platform)
    /\ \/ ~NativeDateParses(platform, lastCall.nativeArgs.startDate)
       \/ ~NativeDateParses(platform, lastCall.nativeArgs.endDate) )
  => IsFailureWith(lastCall, "invalid_date")

\* the call's promise was resolved with a failure of the given code
ResolvedWith(c, code) ==
  /\ queries[c].resolves = 1
  /\ queries[c].resolved.success = FALSE
  /\ queries[c].resolved.error.code = code

\* the three fields the native handlers require are keys of the call's options
QueryFieldsGiven(c) ==
  {"identifier", "startDate", "endDate"} \subseteq DOMAIN queries[c].args

\* C22: the Android native getHealthData checks, in this order, the three
\* fields (missing_arguments), Health Connect (health_connect_unavailable), the
\* identifier (unsupported_identifier), and only then parses the dates and
\* reads: without Health Connect every call with the three fields present is
\* resolved with health_connect_unavailable, whatever its identifier and
\* dates, and issues no read.
C22_AndroidCheckOrder ==
  \A c \in CallIds :
    (platform = "android" /\ queries[c].pc # "idle") =>
      /\ ~QueryFieldsGiven(c) => ResolvedWith(c, "missing_arguments")
      /\ (QueryFieldsGiven(c) /\ ~hcInstalled) =>
            /\ ResolvedWith(c, "health_connect_unavailable")
            /\ queries[c].reads = 0 /\ queries[c].request = Null
      /\ (QueryFieldsGiven(c) /\ hcInstalled
            /\ queries[c].args.identifier \notin Range(recordTypeMapKeys)) =>
            ResolvedWith(c, "unsupported_identifier")
      /\ queries[c].pc \in {"launched", "reading"} \/ queries[c].reads = 1 =>
            /\ QueryFieldsGiven(c) /\ hcInstalled
            /\ queries[c].args.identifier \in Range(recordTypeMapKeys)

C22_Witness ==
  /\ platform = "android" /\ ~hcInstalled
  /\ queries[1].pc = "done" /\ QueryFieldsGiven(1)
  /\ queries[1].args.identifier = "bogus-id" /\ queries[1].args.startDate = "not-a-date"
  /\ ResolvedWith(1, "health_connect_unavailable")
  /\ queries[2].pc = "done" /\ ~QueryFieldsGiven(2)
  /\ ResolvedWith(2, "missing_arguments")

\* two started calls whose options agree on identifier, startDate and endDate
SameReadOptions(c, d) ==
  /\ queries[c].pc # "idle" /\ queries[d].pc # "idle"
  /\ QueryFieldsGiven(c) /\ QueryFieldsGiven(d)
  /\ \A f \in {"identifier", "startDate", "endDate"} : queries[c].args[f] = queries[d].args[f]

AnswersOwnRead(c) ==
  LET own == queries[c].outcome
      got == queries[c].resolved
  IN  /\ queries[c].completions = 1
      /\ CASE own.kind = "error" ->
                got.success = FALSE /\ got.error.code = "query_error"
            [] own.kind = "samples" ->
                got.success /\ Len(got.data) = Len(own.samples) /\ got.error = Null
            [] OTHER -> got.success /\ got.data = << >> /\ got.error = Null

\* C24: getHealthData calls in flight together are independent: a call that
\* issues a read issues one of its own, whether or not another call for the
\* same identifier and range is in flight, and its promise is resolved once,
\* with the answer to its own read, in whatever order the reads complete.
C24_CallsIndependent ==
  \A c \in CallIds :
    /\ queries[c].resolves <= 1
    /\ (queries[c].pc = "done" /\ queries[c].reads = 1) =>
          /\ queries[c].resolves = 1
          /\ AnswersOwnRead(c)
    /\ \A d \in CallIds \ {c} :
          (SameReadOptions(c, d) /\ queries[c].pc = "done" /\ queries[d].pc = "done") =>
            queries[c].reads = queries[d].reads

C24_Witness ==
  /\ SameReadOptions(1, 2) /\ queries[1].args = queries[2].args
  /\ queries[1].pc = "done" /\ queries[2].pc = "done"
  /\ queries[1].reads = 1 /\ queries[2].reads = 1
  /\ queries[1].outcome.kind = "samples" /\ queries[2].outcome.kind = "error"
  /\ queries[1].resolved.success /\ ~queries[2].resolved.success

\* C25: an iOS getHealthData call that issued no read (a guard answered, or
\* the else branch of the if-chain, taken also by a listed identifier whose
\* HealthKit type does not resolve) never blocks on the semaphore and is
\* eventually resolved; a call that issued a read is not resolved before the
\* read's results handler has run, and is eventually resolved once it has.
C25_ResolvesIffReadCompletes ==
  /\ [](\A c \in CallIds :
          /\ (queries[c].reads = 1 /\ queries[c].completions = 0) => queries[c].resolves = 0
          /\ (queries[c].reads = 0 /\ queries[c].pc = "wait") => queries[c].semaphore = 1)
  /\ \A c \in CallIds :
       (queries[c].pc # "idle" /\ (queries[c].reads = 0 \/ queries[c].completions = 1))
         ~> (queries[c].resolves = 1)

\* a listed identifier whose type does not resolve was answered without a
\* read while another call is blocked on a read that has not completed
C25_Witness ==
  /\ platform = "ios" /\ ~ios16
  /\ queries[1].pc = "done" /\ queries[1].reads = 0 /\ queries[1].resolves = 1
  /\ queries[1].args.identifier = "HKQuantityTypeIdentifierHeartRateRecoveryOneMinute"
  /\ queries[1].resolved.error.code = "unsupported_identifier"
  /\ queries[2].pc = "wait" /\ queries[2].reads = 1 /\ queries[2].completions = 0
  /\ queries[2].semaphore = 0 /\ queries[2].resolves = 0

\* C26: every step that submits a refresh request to the OS scheduler on iOS
\* is taken with background sync enabled and with the module's background
\* task handler registered (registerBackgroundTaskHandler has answered
\* success before); enableBackgroundSync before any
\* registerBackgroundTaskHandler submits nothing.
C26_SubmitNeedsHandler ==
  [][ (pendingRequest'.submitted /\ pendingRequest' # pendingRequest)
        => (backgroundSyncEnabled' /\ backgroundTaskHandlerRegistered) ]_vars

\* C27: within one process BGTaskScheduler.register is called at most once
\* for the task identifier "ae.fithack.mobile.health-sync", counting the
\* registration made at load time and those of registerBackgroundTaskHandler.
C27_OneLaunchHandler ==
  launchHandlers <= 1

\* C28: on iOS at most one observer query is installed per observed sample
\* type, after any sequence of enableBackgroundSync and
\* disableBackgroundSync: no sample type occurs twice among the installed
\* queries, so there are never more than ten.
C28_OneObserverPerType ==
  /\ \A i, j \in DOMAIN observerQueries :
       observerQueries[i] = observerQueries[j] => i = j
  /\ Len(observerQueries) <= Len(ObservedSampleTypes)

\* C29: on iOS lastSyncTimestamp is nil at process start and is written only
\* by the operation of the background-refresh handler: every other step (the
\* public calls, getHealthData, the observer callbacks, the refresh handler's
\* scheduling) leaves it unchanged; getBackgroundSyncStatus reports its
\* current value as lastSync (null while it is nil); the sync interval is
\* written only by enableBackgroundSync, so disableBackgroundSync leaves it.
C29_LastSyncWriter ==
  /\ lastSyncTimestamp = NullString
  /\ [][ /\ lastSyncTimestamp' # lastSyncTimestamp =>
              (refresh.pc = "operation" /\ refresh'.pc = "idle")
         /\ syncIntervalHours' # syncIntervalHours =>
              (lastCall'.op = "enableBackgroundSync" /\ backgroundSyncEnabled')
         /\ (platform = "ios" /\ lastCall'.op = "getBackgroundSyncStatus"
               /\ lastCall' # lastCall) =>
              lastCall'.result.lastSync = lastSyncTimestamp ]_vars

\* after a refresh operation and a disableBackgroundSync the status reports
\* the operation's timestamp, and the custom interval is still recorded
C29_Witness ==
  /\ platform = "ios"
  /\ lastCall.op = "getBackgroundSyncStatus" /\ prevCall.op = "disableBackgroundSync"
  /\ lastCall.result.lastSync = "2024-01-03T00:00:00Z"
  /\ lastCall.result.enabled = FALSE
  /\ syncIntervalHours = 10

\* C30: the mapping table gives each of the ten unified identifiers one iOS
\* and one Android target, no two unified identifiers share a target on a
\* platform, every iOS target is in one of the Swift module's three lists and
\* every Android target is a key of recordTypeMap; getPlatformIdentifier
\* answers the platform's target, and a getHealthData call with a unified
\* identifier that reaches a native module on a device that can serve it is
\* never answered unsupported_identifier.
C30_MappingTotalInjective ==
  /\ Cardinality(UnifiedIdentifiers) = 10
  /\ \A u \in UnifiedIdentifiers :
       /\ DOMAIN IDENTIFIER_MAPPING[u] = {"ios", "android"}
       /\ IDENTIFIER_MAPPING[u].ios \in NativeIdentifiers("ios")
       /\ IDENTIFIER_MAPPING[u].android \in NativeIdentifiers("android")
       /\ \A v \in UnifiedIdentifiers \ {u} :
            /\ IDENTIFIER_MAPPING[u].ios # IDENTIFIER_MAPPING[v].ios
            /\ IDENTIFIER_MAPPING[u].android # IDENTIFIER_MAPPING[v].android
  /\ (lastCall.op = "getPlatformIdentifier" /\ platform \in {"ios", "android"}) =>
       lastCall.result \in NativeIdentifiers(platform)
  /\ (lastCall.op = "getHealthData" /\ lastCall.native = "resolve") =>
       /\ lastCall.nativeArgs.identifier \in NativeIdentifiers(platform)
       /\ ~IsFailureWith(lastCall, "unsupported_identifier")

\* vo2Max was resolved on Android and then read through its target
C30_Witness ==
  /\ platform = "android" /\ hcInstalled
  /\ prevCall.op = "getPlatformIdentifier"
  /\ lastCall.op = "getHealthData" /\ lastCall.native = "resolve"
  /\ lastCall.input.identifier = "vo2Max"
  /\ lastCall.nativeArgs.identifier = "Vo2Max"
  /\ lastCall.osCalls = 1 /\ lastCall.result.success

====
